---- MODULE Spec2Model ----
(***************************************************************************)
(* A model of the ARP engine of caser789/arp: the packet codec             *)
(* (packet.go), the client (client.go) and the server (server.go).         *)
(*                                                                         *)
(* Byte slices are sequences of integers in 0..255; a nil slice and an     *)
(* empty slice are both the empty sequence.  A nil *Packet is NilPacket.   *)
(* A Go panic (slice bounds out of range) is a result with panic = TRUE.   *)
(***************************************************************************)
EXTENDS Integers, Sequences, FiniteSets, TLC

VARIABLES
    pkt,    \* codec harness: the *Packet the harness holds (p)
    wire,   \* codec harness: the byte slice the harness holds (b)
    last,   \* codec harness: the last call made and what it returned
    orig,   \* codec harness: the Packet whose encoding wire holds, or NilPacket
    client, \* the Client value: its interface's hardware address and its ip
    cl,     \* the call in progress on the client, its locals and its result
    calls,  \* number of client calls made
    carr,   \* every datagram that arrived at the client's socket, in order
    cnread, \* how many of them the client's ReadFrom has consumed
    cout,   \* every frame the client's socket wrote, in order
    srv,    \* Server.Serve: where it is, its receive buffer, what it returned
    sarr,   \* every datagram that arrived at the server's socket, in order
    snread, \* how many of them Serve's ReadFrom has consumed
    sout,   \* every frame written through the server's socket, in order
    tasks,  \* the per-request goroutines, in the order Serve started them
    closed, \* whether the server's socket has been closed
    cdeliv, \* how many frames of cout the link has carried to the server
    sdeliv  \* how many frames of sout the link has carried on

codecVars == <<pkt, wire, last, orig>>
clientVars == <<client, cl, calls, carr, cnread, cout>>
serverVars == <<srv, sarr, snread, sout, tasks, closed>>
linkVars == <<cdeliv, sdeliv>>
vars == <<pkt, wire, last, orig, client, cl, calls, carr, cnread, cout,
          srv, sarr, snread, sout, tasks, closed, cdeliv, sdeliv>>

\* ------------------------------------------------------------------------
\* Bounds of the model
\* ------------------------------------------------------------------------

\* address bytes are the pattern (seed + i) % 256, seed in 0..MaxSeed
MaxSeed == 1
\* input buffers carry up to MaxExtra bytes beyond what their header declares
MaxExtra == 1
\* datagrams the environment delivers to a socket in one run
MaxDatagrams == 2
\* calls made on the client in one run
MaxCalls == 2
\* packets a handler invocation sends
MaxSends == 1
\* writes the harness makes after a decode
MaxWrites == 2
\* Request, WriteTo and Reply calls made on a client in one run
MaxClientWrites == 1

\* declared address lengths tried (uint8): both ends, the usual 4/6/20, and
\* the lengths around which 8 + 2*hal + 2*pl crosses 256
AddrLens == {0, 4, 6, 20, 119, 120, 128, 255}
\* the <<hardware, protocol>> length pairs tried: one side small, or both 255
LenPairs ==
    {pr \in AddrLens \X AddrLens : pr[1] <= 20 \/ pr[2] <= 20 \/ pr = <<255, 255>>}
\* how far an actual address slice may differ in length from the declared one
Deltas == {-1, 0, 1}
\* <<hardware type, protocol type, operation>> triples tried (uint16 each)
Headers == {<<1, 2048, 1>>, <<32, 2048, 2>>, <<258, 65535, 772>>}
\* hardware address lengths handed to NewPacket: below and at the minimum
\* of 6, the usual ones, and one that no uint8 holds
MacLens == {0, 5, 6, 8, 20, 256}

\* ------------------------------------------------------------------------
\* Values
\* ------------------------------------------------------------------------

ErrNil == "nil"
ErrUnexpectedEOF == "io.ErrUnexpectedEOF"
ErrInvalidMAC == "ErrInvalidMAC"
ErrInvalidIP == "ErrInvalidIP"
errInvalidARPPacket == "errInvalidARPPacket"

OperationRequest == 1
OperationReply == 2
EtherTypeIPv4 == 2048
EtherTypeARP == 2054

NilPacket == [nil |-> TRUE]

\* new(Packet): the zero value
ZeroPacket ==
    [HardwareType |-> 0, ProtocolType |-> 0, MACLength |-> 0, IPLength |-> 0,
     Operation |-> 0, SenderMAC |-> <<>>, SenderIP |-> <<>>,
     TargetMAC |-> <<>>, TargetIP |-> <<>>]

Min(a, b) == IF a < b THEN a ELSE b
Max(a, b) == IF a < b THEN b ELSE a

\* the sequence a function over 1..n stands for, as a tuple
Bytes(f) == f \o <<>>

Zeros(n) == Bytes([i \in 1..n |-> 0])
Fill(n, seed) == Bytes([i \in 1..n |-> (seed + i) % 256])

Broadcast == <<255, 255, 255, 255, 255, 255>>
IPv4zero == <<0, 0, 0, 0, 0, 0, 0, 0, 0, 0, 255, 255, 0, 0, 0, 0>>
IPv6zero == Zeros(16)

\* ------------------------------------------------------------------------
\* Byte-level helpers
\* ------------------------------------------------------------------------

Uint8(n) == n % 256

\* a byte pair read low byte first
Uint16LittleEndian(b, n) == b[n + 2] * 256 + b[n + 1]

\* binary.BigEndian.PutUint16 / Uint16; n is the 0-based offset of the pair
PutUint16(v) == <<(v \div 256) % 256, v % 256>>
Uint16(b, n) == b[n + 1] * 256 + b[n + 2]

\* copy(b[lo:hi], src): min(hi - lo, len(src)) bytes are copied
CopyBytes(b, lo, hi, src) ==
    Bytes([i \in 1..Len(b) |->
        IF lo < i /\ i <= hi /\ i - lo <= Len(src) THEN src[i - lo] ELSE b[i]])
\* (the operands are taken as values, so that each is computed once)
Copy(b, lo, hi, src) ==
    CHOOSE r \in {CopyBytes(dst, l, h, from) :
                      dst \in {b}, l \in {lo}, h \in {hi}, from \in {src}} : TRUE

\* ------------------------------------------------------------------------
\* Packet.MarshalBinary
\* ------------------------------------------------------------------------

\* a buffer sized from the address slices the Packet holds
MarshalSizeActual(p) ==
    Uint8(8 + Len(p.SenderMAC) + Len(p.SenderIP) + Len(p.TargetMAC) + Len(p.TargetIP))

\* the length given to make(): the operands are uint8, so is the arithmetic
MarshalSize(p) == Uint8(8 + Uint8(p.IPLength * 2) + Uint8(p.MACLength * 2))

MarshalBinary(p) ==
    LET size == MarshalSize(p)
        hal == p.MACLength
        pl == p.IPLength
        n1 == 8 + hal
        n2 == n1 + pl
        n3 == n2 + hal
        n4 == n3 + pl
        b0 == Zeros(size)
        b1 == Copy(b0, 0, 2, PutUint16(p.HardwareType))
        b2 == Copy(b1, 2, 4, PutUint16(p.ProtocolType))
        b3 == Copy(b2, 4, 5, <<p.MACLength>>)
        b4 == Copy(b3, 5, 6, <<p.IPLength>>)
        b5 == Copy(b4, 6, 8, PutUint16(p.Operation))
        b6 == Copy(b5, 8, n1, p.SenderMAC)
        b7 == Copy(b6, n1, n2, p.SenderIP)
        b8 == Copy(b7, n2, n3, p.TargetMAC)
        b9 == Copy(b8, n3, n4, p.TargetIP)
    IN  IF size < 8 \/ n1 > size \/ n2 > size \/ n3 > size \/ n4 > size
        THEN [b |-> <<>>, err |-> ErrNil, panic |-> TRUE]
        ELSE [b |-> b9, err |-> ErrNil, panic |-> FALSE]

\* ------------------------------------------------------------------------
\* Packet.UnmarshalBinary
\* ------------------------------------------------------------------------

\* the first length check: room for the fixed header
HeaderTooShort(b) == Len(b) < 8

\* a second check that looks at the fixed header only
AddrsTooShortHeaderOnly(b, addrl) == Len(b) < 8

\* the second length check: room for the four addresses
AddrsTooShort(b, addrl) == Len(b) < addrl

\* the four address fields of a Packet
AddrFields == {"SenderMAC", "SenderIP", "TargetMAC", "TargetIP"}

\* a slice: the bytes lo..hi-1 of the storage buf, which is the input b of
\* UnmarshalBinary ("b"), the buffer it allocates ("bb"), or none (nil)
NilSlice == [buf |-> "none", lo |-> 0, hi |-> 0]
NoRefs == [f \in AddrFields |-> NilSlice]

\* the bytes a slice holds when the storage holds heap
View(heap, ref) == SubSeq(heap[ref.buf], ref.lo + 1, ref.hi)

\* address fields sliced out of the input: p.SenderMAC = b[n:n+ml], ...
AddrRefsInput(ml, il) ==
    [SenderMAC |-> [buf |-> "b", lo |-> 8, hi |-> 8 + ml],
     SenderIP |-> [buf |-> "b", lo |-> 8 + ml, hi |-> 8 + ml + il],
     TargetMAC |-> [buf |-> "b", lo |-> 8 + ml + il, hi |-> 8 + 2 * ml + il],
     TargetIP |-> [buf |-> "b", lo |-> 8 + 2 * ml + il, hi |-> 8 + 2 * ml + 2 * il]]

\* UnmarshalBinary: the slice expressions the four address fields are set to
AddrRefs(ml, il) ==
    [SenderMAC |-> [buf |-> "bb", lo |-> 0, hi |-> ml],
     SenderIP |-> [buf |-> "bb", lo |-> ml, hi |-> ml + il],
     TargetMAC |-> [buf |-> "bb", lo |-> ml + il, hi |-> 2 * ml + il],
     TargetIP |-> [buf |-> "bb", lo |-> 2 * ml + il, hi |-> 2 * ml + 2 * il]]

\* the Packet p with its address fields read through their slices
Reviewed(p, heap, refs) ==
    [p EXCEPT !.SenderMAC = View(heap, refs.SenderMAC),
              !.SenderIP = View(heap, refs.SenderIP),
              !.TargetMAC = View(heap, refs.TargetMAC),
              !.TargetIP = View(heap, refs.TargetIP)]

UnmarshalBytes(p, b) ==
    IF HeaderTooShort(b)
    THEN [p |-> p, err |-> ErrUnexpectedEOF, panic |-> FALSE,
          bb |-> <<>>, refs |-> NoRefs]
    ELSE IF Len(b) < 8
    THEN [p |-> p, err |-> ErrNil, panic |-> TRUE, bb |-> <<>>, refs |-> NoRefs]
    ELSE
    LET p1 == [p EXCEPT !.HardwareType = Uint16(b, 0),
                        !.ProtocolType = Uint16(b, 2),
                        !.MACLength = b[5],
                        !.IPLength = b[6],
                        !.Operation = Uint16(b, 6)]
        n == 8
        ml == p1.MACLength
        ml2 == ml * 2
        il == p1.IPLength
        il2 == il * 2
        addrl == n + ml2 + il2
        bb0 == Zeros(addrl - n)
        bb1 == Copy(bb0, 0, ml, SubSeq(b, n + 1, n + ml))
        bb2 == Copy(bb1, ml, ml + il, SubSeq(b, n + ml + 1, n + ml + il))
        bb3 == Copy(bb2, ml + il, ml2 + il, SubSeq(b, n + ml + il + 1, n + ml2 + il))
        bb4 == Copy(bb3, ml2 + il, ml2 + il2, SubSeq(b, n + ml2 + il + 1, n + ml2 + il2))
        refs == AddrRefs(ml, il)
    IN  IF AddrsTooShort(b, addrl)
        THEN [p |-> p1, err |-> ErrUnexpectedEOF, panic |-> FALSE,
              bb |-> <<>>, refs |-> NoRefs]
        ELSE IF Len(b) < addrl
        THEN [p |-> p1, err |-> ErrNil, panic |-> TRUE, bb |-> <<>>, refs |-> NoRefs]
        ELSE [p |-> Reviewed(p1, [b |-> b, bb |-> bb4], refs),
              err |-> ErrNil, panic |-> FALSE, bb |-> bb4, refs |-> refs]

\* p.UnmarshalBinary(b): the packet after the call, and how the call ended
\* (the operands are taken as values, so that each is computed once)
UnmarshalBinary(p, b) ==
    CHOOSE r \in {UnmarshalBytes(q, bytes) : q \in {p}, bytes \in {b}} : TRUE

\* ------------------------------------------------------------------------
\* NewPacket
\* ------------------------------------------------------------------------

\* net.IP.To4: a 4-byte address as it is, a 16-byte IPv4-mapped address as its
\* last four bytes, anything else nil
To4(ip) ==
    IF Len(ip) = 4 THEN ip
    ELSE IF /\ Len(ip) = 16
            /\ \A i \in 1..10 : ip[i] = 0
            /\ ip[11] = 255
            /\ ip[12] = 255
         THEN SubSeq(ip, 13, 16)
         ELSE <<>>

\* the hardware address checks without the comparison of the two lengths
InvalidMACNoMismatch(srcMAC, dstMAC) ==
    \/ Len(srcMAC) < 6
    \/ Len(dstMAC) < 6

\* the three hardware address checks
InvalidMAC(srcMAC, dstMAC) ==
    \/ Len(srcMAC) < 6
    \/ Len(dstMAC) < 6
    \/ Len(srcMAC) # Len(dstMAC)

NewPacket(op, srcMAC, srcIP, dstMAC, dstIP) ==
    IF InvalidMAC(srcMAC, dstMAC)
    THEN [p |-> NilPacket, err |-> ErrInvalidMAC]
    ELSE IF To4(srcIP) = <<>>
    THEN [p |-> NilPacket, err |-> ErrInvalidIP]
    ELSE IF To4(dstIP) = <<>>
    THEN [p |-> NilPacket, err |-> ErrInvalidIP]
    ELSE [p |-> [HardwareType |-> 1,
                 ProtocolType |-> EtherTypeIPv4,
                 MACLength |-> Uint8(Len(srcMAC)),
                 IPLength |-> Uint8(Len(To4(srcIP))),
                 Operation |-> op,
                 SenderMAC |-> srcMAC,
                 SenderIP |-> To4(srcIP),
                 TargetMAC |-> dstMAC,
                 TargetIP |-> To4(dstIP)],
          err |-> ErrNil]

\* ------------------------------------------------------------------------
\* The codec harness: inputs
\* ------------------------------------------------------------------------

\* Packet literals, as the tests build them: any header, declared lengths from
\* AddrLens, address slices whose lengths differ by d from the declared ones
PacketOf(h, ml, il, d, s) ==
    [HardwareType |-> h[1], ProtocolType |-> h[2], MACLength |-> ml,
     IPLength |-> il, Operation |-> h[3],
     SenderMAC |-> Fill(Max(0, ml + d), s),
     SenderIP |-> Fill(Max(0, il + d), s + 50),
     TargetMAC |-> Fill(Max(0, ml + d), s + 100),
     TargetIP |-> Fill(Max(0, il + d), s + 150)]

PacketInputs ==
    {PacketOf(h, pr[1], pr[2], d, s) :
        h \in Headers, pr \in LenPairs, d \in Deltas, s \in 0..MaxSeed}

\* input buffers: a header declaring ml and il, cut or padded to length n
WireOf(h, ml, il, n, s) ==
    Bytes([i \in 1..n |->
        CASE i = 5 -> ml
          [] i = 6 -> il
          [] i \in {1, 2} -> PutUint16(h[1])[i]
          [] i \in {3, 4} -> PutUint16(h[2])[i - 2]
          [] i \in {7, 8} -> PutUint16(h[3])[i - 6]
          [] OTHER -> (s + i) % 256])

WireLens(ml, il) ==
    {0, 7, 8} \cup {n \in (8 + 2 * ml + 2 * il - 1)..(8 + 2 * ml + 2 * il + MaxExtra) : n >= 0}

WireInputs ==
    UNION {{WireOf(h, pr[1], pr[2], n, s) : n \in WireLens(pr[1], pr[2])} :
        h \in Headers, pr \in LenPairs, s \in 0..MaxSeed}

MACInputs == {Fill(n, 0) : n \in MacLens} \cup {Zeros(20), Broadcast}
IPInputs ==
    {<<>>, <<0, 0, 0>>, <<192, 168, 1, 10>>, <<0, 0, 0, 0, 0>>, IPv4zero, IPv6zero}

\* ------------------------------------------------------------------------
\* The codec harness: state machine
\* ------------------------------------------------------------------------

\* the last call of the harness and how it ended; after a decode, the buffer
\* it allocated, the slices of the address fields, the Packet it left, and
\* what the harness has written to since
NoCall ==
    [op |-> "none", err |-> ErrNil, panic |-> FALSE, args |-> <<>>,
     bb |-> <<>>, refs |-> NoRefs, snap |-> NilPacket, written |-> {}, nw |-> 0]

CodecInit ==
    /\ last = NoCall
    /\ orig = NilPacket
    /\ \/ pkt \in PacketInputs /\ wire = <<>>
       \/ pkt = ZeroPacket /\ wire \in WireInputs
       \/ pkt = NilPacket /\ wire = <<>>

\* the harness holds nothing yet: no Packet, no buffer, no call made
HarnessEmpty ==
    /\ pkt = NilPacket
    /\ wire = <<>>
    /\ orig = NilPacket
    /\ last.op = "none"

\* p, err := NewPacket(op, srcMAC, srcIP, dstMAC, dstIP)
CallNewPacket(op, srcMAC, srcIP, dstMAC, dstIP) ==
    /\ LET r == NewPacket(op, srcMAC, srcIP, dstMAC, dstIP)
       IN  /\ pkt' = r.p
           /\ last' = [NoCall EXCEPT !.op = "NewPacket", !.err = r.err,
                                      !.args = <<op, srcMAC, srcIP, dstMAC, dstIP>>]
    /\ UNCHANGED <<wire, orig>>

\* b, err := p.MarshalBinary()
CallMarshalBinary ==
    /\ pkt # NilPacket
    /\ ~last.panic
    /\ last.op # "write"
    /\ LET r == MarshalBinary(pkt)
       IN  /\ wire' = IF r.panic THEN wire ELSE r.b
           /\ orig' = IF r.panic THEN orig ELSE pkt
           /\ last' = [NoCall EXCEPT !.op = "MarshalBinary", !.err = r.err,
                                      !.panic = r.panic]
    /\ UNCHANGED pkt

\* err := p.UnmarshalBinary(b), p being new(Packet) or the Packet held
CallUnmarshalBinary(fresh) ==
    /\ fresh \/ pkt # NilPacket
    /\ ~last.panic
    /\ last.op \notin {"NewPacket", "write"}
    /\ LET r == UnmarshalBinary(IF fresh THEN ZeroPacket ELSE pkt, wire)
       IN  /\ pkt' = r.p
           /\ last' = [NoCall EXCEPT !.op = "UnmarshalBinary", !.err = r.err,
                                      !.panic = r.panic, !.bb = r.bb,
                                      !.refs = r.refs, !.snap = r.p]
    /\ UNCHANGED <<wire, orig>>

\* a successful decode has been made, and fewer than MaxWrites writes since
Decoded ==
    /\ last.op \in {"UnmarshalBinary", "write"}
    /\ last.err = ErrNil
    /\ ~last.panic
    /\ last.nw < MaxWrites

\* the caller reuses its buffer: b[i-1]++
WriteInput(i) ==
    /\ Decoded
    /\ i \in 1..Len(wire)
    /\ wire' = [wire EXCEPT ![i] = (@ + 1) % 256]
    /\ pkt' = Reviewed(pkt, [b |-> wire', bb |-> last.bb], last.refs)
    /\ last' = [last EXCEPT !.op = "write", !.written = @ \cup {"input"},
                            !.nw = @ + 1]
    /\ UNCHANGED orig

\* the caller writes to an address field of the decoded Packet: p.f[0]++
WriteField(f) ==
    /\ Decoded
    /\ Len(pkt[f]) > 0
    /\ LET ref == last.refs[f]
           heap == [b |-> wire, bb |-> last.bb]
           heap2 == [heap EXCEPT ![ref.buf][ref.lo + 1] = (@ + 1) % 256]
       IN  /\ wire' = heap2.b
           /\ pkt' = Reviewed(pkt, heap2, last.refs)
           /\ last' = [last EXCEPT !.op = "write", !.bb = heap2.bb,
                                   !.written = @ \cup {f}, !.nw = @ + 1]
    /\ UNCHANGED orig

\* ------------------------------------------------------------------------
\* The link layer: frames and sockets (external packages ethernet and raw)
\* ------------------------------------------------------------------------

errNoIPv4Addr == "errNoIPv4Addr"
ErrEOF == "io.EOF"
ErrTimeout == "i/o timeout"
ErrWrite == "write error"
ErrClosed == "use of closed network connection"

\* errors a socket read can report
ReadErrors == {ErrEOF, ErrTimeout}

\* the size of the receive buffers of Client.Read and Server.Serve
ReadBufSize == 128
\* the payload size below which ethernet.Frame.MarshalBinary pads with zeros
MinPayload == 46

ClientMAC == <<170, 187, 204, 221, 238, 1>>
ServerMAC == <<222, 173, 190, 239, 222, 2>>
OtherMAC == <<2, 0, 0, 0, 0, 3>>
ClientIP == <<192, 168, 1, 10>>
IPa == <<192, 168, 1, 1>>
IPb == <<192, 168, 1, 2>>
IPb16 == <<0, 0, 0, 0, 0, 0, 0, 0, 0, 0, 255, 255, 192, 168, 1, 2>>

NilFrame == [nil |-> TRUE]

\* ethernet.Frame.MarshalBinary: destination, source, EtherType, payload
\* (zero-padded to MinPayload); no VLAN tags
FrameMarshal(f) ==
    LET pl == Max(Len(f.Payload), MinPayload)
        b0 == Zeros(14 + pl)
        b1 == Copy(b0, 0, 6, f.Destination)
        b2 == Copy(b1, 6, 12, f.Source)
        b3 == Copy(b2, 12, 14, PutUint16(f.EtherType))
    IN  Copy(b3, 14, 14 + pl, f.Payload)

\* ethernet.Frame.UnmarshalBinary: fails on less than a header
FrameUnmarshal(b) ==
    IF Len(b) < 14
    THEN [f |-> NilFrame, err |-> ErrUnexpectedEOF]
    ELSE [f |-> [Destination |-> SubSeq(b, 1, 6),
                 Source |-> SubSeq(b, 7, 12),
                 EtherType |-> Uint16(b, 12),
                 Payload |-> SubSeq(b, 15, Len(b))],
          err |-> ErrNil]

\* a ReadFrom into a buffer as long as the datagram
ReadBufWhole(d) == d

\* net.PacketConn.ReadFrom(buf): the first len(buf) bytes of the datagram
ReadBuf(d) == SubSeq(d, 1, Min(Len(d), ReadBufSize))

\* ------------------------------------------------------------------------
\* parsePacket, parseRequest
\* ------------------------------------------------------------------------

\* a parsePacket that decodes the payload before it looks at the EtherType
parsePacketPayloadFirst(buf) ==
    LET fr == FrameUnmarshal(buf)
    IN  IF fr.err # ErrNil
        THEN [p |-> NilPacket, f |-> NilFrame, err |-> fr.err, panic |-> FALSE]
        ELSE LET r == UnmarshalBinary(ZeroPacket, fr.f.Payload)
             IN  IF r.panic
                 THEN [p |-> NilPacket, f |-> NilFrame, err |-> ErrNil, panic |-> TRUE]
                 ELSE IF r.err # ErrNil
                 THEN [p |-> NilPacket, f |-> NilFrame, err |-> r.err, panic |-> FALSE]
                 ELSE IF fr.f.EtherType # EtherTypeARP
                 THEN [p |-> NilPacket, f |-> NilFrame, err |-> errInvalidARPPacket,
                       panic |-> FALSE]
                 ELSE [p |-> r.p, f |-> fr.f, err |-> ErrNil, panic |-> FALSE]

\* parsePacket from p.UnmarshalBinary(f.Payload) on, r being what that
\* call made of the new Packet
parsedPayload(f, r) ==
    IF r.panic
    THEN [p |-> NilPacket, f |-> NilFrame, err |-> ErrNil, panic |-> TRUE]
    ELSE IF r.err # ErrNil
    THEN [p |-> NilPacket, f |-> NilFrame, err |-> r.err, panic |-> FALSE]
    ELSE [p |-> r.p, f |-> f, err |-> ErrNil, panic |-> FALSE]

\* parsePacket from the check of f.UnmarshalBinary's error on, fr being what
\* that call returned
parsedFrame(fr) ==
    IF fr.err # ErrNil
    THEN [p |-> NilPacket, f |-> NilFrame, err |-> fr.err, panic |-> FALSE]
    ELSE IF fr.f.EtherType # EtherTypeARP
    THEN [p |-> NilPacket, f |-> NilFrame, err |-> errInvalidARPPacket,
          panic |-> FALSE]
    ELSE CHOOSE x \in {parsedPayload(fr.f, r) :
                           r \in {UnmarshalBinary(ZeroPacket, fr.f.Payload)}} : TRUE

\* (each call's result is taken as a value, so that it is computed once)
parsePacket(buf) ==
    CHOOSE x \in {parsedFrame(fr) : fr \in {FrameUnmarshal(buf)}} : TRUE

NilRequest == [nil |-> TRUE]

\* parseRequest: the Request view of a datagram, the Packet's operation and
\* four addresses; the errors of parsePacket
parseRequest(buf) ==
    LET r == parsePacket(buf)
    IN  IF r.panic \/ r.err # ErrNil
        THEN [r |-> NilRequest, err |-> r.err, panic |-> r.panic]
        ELSE [r |-> [Operation |-> r.p.Operation,
                     SenderMAC |-> r.p.SenderMAC,
                     SenderIP |-> r.p.SenderIP,
                     TargetMAC |-> r.p.TargetMAC,
                     TargetIP |-> r.p.TargetIP],
              err |-> ErrNil, panic |-> FALSE]

\* ------------------------------------------------------------------------
\* Client: WriteTo, Request, Read, Resolve
\* ------------------------------------------------------------------------

\* net.IP.Equal: the same bytes, or the same IPv4 address in its 4-byte and
\* its 16-byte form
IPEqual(ip, x) ==
    IF Len(ip) = Len(x) THEN ip = x
    ELSE IF Len(ip) = 4 /\ Len(x) = 16
    THEN SubSeq(x, 1, 12) = SubSeq(IPv4zero, 1, 12) /\ ip = SubSeq(x, 13, 16)
    ELSE IF Len(ip) = 16 /\ Len(x) = 4
    THEN SubSeq(ip, 1, 12) = SubSeq(IPv4zero, 1, 12) /\ SubSeq(ip, 13, 16) = x
    ELSE FALSE

\* Client.WriteTo(p, addr); werr is what the socket's WriteTo returns.
\* out holds the frame written, if one was.
WriteTo(p, addr, werr) ==
    LET pb == MarshalBinary(p)
        fb == FrameMarshal([Destination |-> p.TargetMAC, Source |-> p.SenderMAC,
                            EtherType |-> EtherTypeARP, Payload |-> pb.b])
    IN  IF pb.panic
        THEN [err |-> ErrNil, out |-> <<>>, panic |-> TRUE]
        ELSE IF werr # ErrNil
        THEN [err |-> werr, out |-> <<>>, panic |-> FALSE]
        ELSE [err |-> ErrNil, out |-> <<[b |-> fb, to |-> addr]>>, panic |-> FALSE]

\* a Reply written to the broadcast address
ReplyToBroadcast(req, hwAddr, ip, werr) ==
    LET r == NewPacket(OperationReply, hwAddr, ip, req.SenderMAC, req.SenderIP)
    IN  IF r.err # ErrNil
        THEN [err |-> r.err, out |-> <<>>, panic |-> FALSE]
        ELSE WriteTo(r.p, Broadcast, werr)

\* Client.Reply(req, hwAddr, ip)
Reply(req, hwAddr, ip, werr) ==
    LET r == NewPacket(OperationReply, hwAddr, ip, req.SenderMAC, req.SenderIP)
    IN  IF r.err # ErrNil
        THEN [err |-> r.err, out |-> <<>>, panic |-> FALSE]
        ELSE WriteTo(r.p, req.SenderMAC, werr)

\* the addresses of an interface, as ifi.Addrs() returns them: the network
\* of the address, the address net.ParseCIDR makes of its string (an IPv4
\* address in 16-byte form), or the failure of net.ParseCIDR
AddrV4(ip) == [network |-> "ip+net", cidr |-> "ok", ip |-> SubSeq(IPv4zero, 1, 12) \o ip]
AddrV6 == [network |-> "ip+net", cidr |-> "ok", ip |-> Fill(16, 31)]
AddrOther == [network |-> "ip", cidr |-> "ok", ip |-> <<>>]
AddrBad == [network |-> "ip+net", cidr |-> "bad", ip |-> <<>>]
ErrParseCIDR == "invalid CIDR address"

\* firstIPv4Addr(addrs)
RECURSIVE firstIPv4Addr(_)
firstIPv4Addr(addrs) ==
    IF addrs = <<>>
    THEN [ip |-> <<>>, err |-> ErrNil]
    ELSE IF Head(addrs).network # "ip+net"
    THEN firstIPv4Addr(Tail(addrs))
    ELSE IF Head(addrs).cidr # "ok"
    THEN [ip |-> <<>>, err |-> ErrParseCIDR]
    ELSE IF To4(Head(addrs).ip) # <<>>
    THEN [ip |-> To4(Head(addrs).ip), err |-> ErrNil]
    ELSE firstIPv4Addr(Tail(addrs))

NilClient == [nil |-> TRUE]

\* newClient(ifi, p, addrs); mac is ifi.HardwareAddr
newClient(mac, addrs) ==
    LET r == firstIPv4Addr(addrs)
    IN  IF r.err # ErrNil
        THEN [c |-> NilClient, err |-> r.err]
        ELSE [c |-> [mac |-> mac, ip |-> r.ip], err |-> ErrNil]

\* Client.Request(ip)
Request(c, ip, werr) ==
    IF c.ip = <<>>
    THEN [err |-> errNoIPv4Addr, out |-> <<>>, panic |-> FALSE]
    ELSE LET r == NewPacket(OperationRequest, c.mac, c.ip, Broadcast, ip)
         IN  IF r.err # ErrNil
             THEN [err |-> r.err, out |-> <<>>, panic |-> FALSE]
             ELSE WriteTo(r.p, Broadcast, werr)

\* a Read that hands every parse error to its caller
ReadSwallowsNothing(err) == FALSE

\* a Read that reads again after any parse error
ReadSwallowsAll(err) == TRUE

\* Client.Read: the parse error that makes the loop read again
ReadSwallows(err) == err = errInvalidARPPacket

\* a Resolve that does not look at the operation
MatchesAnyOperation(arp, ip) == IPEqual(arp.SenderIP, ip)

\* a Resolve that compares the target protocol address
MatchesTargetIP(arp, ip) ==
    ~(arp.Operation # OperationReply \/ ~IPEqual(arp.TargetIP, ip))

\* Client.Resolve: the packet that ends the loop
Matches(arp, ip) == ~(arp.Operation # OperationReply \/ ~IPEqual(arp.SenderIP, ip))

\* ------------------------------------------------------------------------
\* Datagrams on the wire
\* ------------------------------------------------------------------------

\* the frame carrying the ARP packet NewPacket builds from the arguments
ArpFrame(op, srcMAC, srcIP, dstMAC, dstIP) ==
    FrameMarshal([Destination |-> dstMAC, Source |-> srcMAC,
                  EtherType |-> EtherTypeARP,
                  Payload |-> MarshalBinary(
                      NewPacket(op, srcMAC, srcIP, dstMAC, dstIP).p).b])

\* too short for a frame header
ShortFrame == [b |-> Zeros(10), from |-> OtherMAC]
\* an IPv4 frame
NonARPFrame ==
    [b |-> FrameMarshal([Destination |-> ClientMAC, Source |-> OtherMAC,
                         EtherType |-> EtherTypeIPv4, Payload |-> Zeros(20)]),
     from |-> OtherMAC]
\* a reply from IPa, addressed to a third host
ReplyFromA ==
    [b |-> ArpFrame(OperationReply, ServerMAC, IPa, OtherMAC, IPb),
     from |-> ServerMAC]
\* a reply from IPb, addressed to the client
ReplyFromB ==
    [b |-> ArpFrame(OperationReply, OtherMAC, IPb, ClientMAC, ClientIP),
     from |-> OtherMAC]
\* a request whose sender is IPa
RequestFromA ==
    [b |-> ArpFrame(OperationRequest, OtherMAC, IPa, Broadcast, ClientIP),
     from |-> OtherMAC]
\* an ARP frame whose packet declares 255-byte hardware addresses it lacks
TruncatedARP ==
    [b |-> FrameMarshal([Destination |-> ClientMAC, Source |-> OtherMAC,
                         EtherType |-> EtherTypeARP,
                         Payload |-> <<0, 1, 8, 0, 255, 4, 0, 2>>]),
     from |-> OtherMAC]
\* a request for IPa from the client, as Client.Request writes it
RequestForA ==
    [b |-> ArpFrame(OperationRequest, ClientMAC, ClientIP, Broadcast, IPa),
     from |-> ClientMAC]

ClientDatagrams ==
    {ShortFrame, NonARPFrame, ReplyFromA, ReplyFromB, RequestFromA, TruncatedARP}
ServerDatagrams ==
    {ShortFrame, NonARPFrame, RequestForA, TruncatedARP}

\* the Client values of the model: a usable one, one without an IPv4
\* address, one on an interface with a 20-byte hardware address
ClientConfigs ==
    {newClient(ClientMAC, <<AddrV4(ClientIP)>>).c,
     newClient(ClientMAC, <<AddrV6>>).c,
     newClient(Zeros(20), <<AddrV4(ClientIP)>>).c}

\* the addresses handed to Resolve
ResolveIPs == {IPa, IPb16, IPv6zero}

\* ------------------------------------------------------------------------
\* Client: state machine
\* ------------------------------------------------------------------------

NoRet == [mac |-> <<>>, p |-> NilPacket, f |-> NilFrame, err |-> ErrNil]

\* a Read called from a second goroutine, not called yet
NoPeer ==
    [pc |-> "idle", fn |-> "Read", ip |-> <<>>, nerr |-> 0, rdErr |-> ErrNil,
     got |-> {}, ret |-> NoRet]

\* no call in progress.  start and wstart are the lengths of what the socket
\* had read and written when the call began, nerr and rdErr the number of
\* errors ReadFrom returned during the call and the last of them, got the
\* datagrams its ReadFrom calls returned, by their place in the order of
\* arrival, other a Read that a second goroutine makes on the same Client,
\* reqErr the error c.Request returned to Resolve.
ClientIdle ==
    [pc |-> "idle", fn |-> "none", ip |-> <<>>, args |-> <<>>, start |-> 0,
     wstart |-> 0, nerr |-> 0, rdErr |-> ErrNil, got |-> {}, other |-> NoPeer,
     reqErr |-> ErrNil, ret |-> NoRet]

ClientNetInit ==
    /\ cl = ClientIdle
    /\ calls = 0
    /\ carr = <<>>
    /\ cnread = 0
    /\ cout = <<>>

\* a datagram arrives at the client's socket
ClientArrive(d) ==
    /\ Len(carr) < MaxDatagrams
    /\ carr' = Append(carr, d)
    /\ UNCHANGED <<client, cl, calls, cnread, cout>>

\* hw, err := c.Resolve(ip) is called
CallResolve(ip) ==
    /\ cl.pc \in {"idle", "returned"}
    /\ calls < MaxCalls
    /\ calls' = calls + 1
    /\ cl' = [ClientIdle EXCEPT !.pc = "Request", !.fn = "Resolve", !.ip = ip,
                                !.start = cnread, !.wstart = Len(cout),
                                !.other = cl.other]
    /\ UNCHANGED <<client, carr, cnread, cout>>

\* p, f, err := c.Read() is called
CallRead ==
    /\ cl.pc \in {"idle", "returned"}
    /\ calls < MaxCalls
    /\ calls' = calls + 1
    /\ cl' = [ClientIdle EXCEPT !.pc = "ReadFrom", !.fn = "Read", !.start = cnread,
                                !.wstart = Len(cout)]
    /\ UNCHANGED <<client, carr, cnread, cout>>

\* a Resolve that goes on to read whatever c.Request returned
RequestFailedNever(err) == FALSE

\* Resolve: the test on what c.Request returned that ends the call
RequestFailed(err) == err # ErrNil

\* Resolve: err := c.Request(ip), and the return on its error
ResolveRequest(werr) ==
    /\ cl.pc = "Request"
    /\ LET r == Request(client, cl.ip, werr)
       IN  /\ cout' = cout \o r.out
           /\ cl' = IF r.panic
                    THEN [cl EXCEPT !.pc = "panic"]
                    ELSE IF RequestFailed(r.err)
                    THEN [cl EXCEPT !.pc = "returned", !.reqErr = r.err,
                                    !.ret = [NoRet EXCEPT !.err = r.err]]
                    ELSE [cl EXCEPT !.pc = "ReadFrom", !.reqErr = r.err]
    /\ UNCHANGED <<client, calls, carr, cnread>>

\* what Read, and Resolve around it, do with what parsePacket returned
AfterParse(c, r) ==
        IF r.panic
        THEN [c EXCEPT !.pc = "panic"]
        ELSE IF r.err # ErrNil
        THEN IF ReadSwallows(r.err)
             THEN c
             ELSE [c EXCEPT !.pc = "returned", !.ret = [NoRet EXCEPT !.err = r.err]]
        ELSE IF c.fn = "Read"
        THEN [c EXCEPT !.pc = "returned",
                       !.ret = [NoRet EXCEPT !.p = r.p, !.f = r.f]]
        ELSE IF Matches(r.p, c.ip)
        THEN [c EXCEPT !.pc = "returned",
                       !.ret = [NoRet EXCEPT !.mac = r.p.SenderMAC]]
        ELSE c

\* what Read, and Resolve around it, do with the bytes one ReadFrom returned
\* (the operands are taken as values, so that each is computed once)
AfterRead(c, buf) ==
    CHOOSE x \in {AfterParse(call, r) : call \in {c}, r \in {parsePacket(buf)}} : TRUE

\* what Read, and Resolve around it, do with an error ReadFrom returned
AfterReadError(c, rerr) ==
    [c EXCEPT !.pc = "returned", !.ret = [NoRet EXCEPT !.err = rerr]]

\* Read: n, _, err := c.p.ReadFrom(buf) and all that follows it up to the
\* next ReadFrom or the return; rerr is the error the socket reports
ClientReadFrom(rerr) ==
    /\ cl.pc = "ReadFrom"
    /\ IF rerr # ErrNil
       THEN /\ cl' = AfterReadError([cl EXCEPT !.nerr = @ + 1, !.rdErr = rerr], rerr)
            /\ UNCHANGED cnread
       ELSE /\ cnread < Len(carr)
            /\ cnread' = cnread + 1
            /\ cl' = AfterRead([cl EXCEPT !.got = @ \cup {cnread + 1}],
                                ReadBuf(carr[cnread + 1].b))
    /\ UNCHANGED <<client, calls, carr, cout>>

\* a Client that keeps Read out while a Resolve is in progress
ReadExcludedByResolve(c) == c.fn = "Resolve" /\ c.pc \in {"Request", "ReadFrom"}

\* Client has no lock: whether the call c in progress on it keeps the
\* ReadFrom of another goroutine's Read from the socket
ReadExcluded(c) == FALSE

\* a second goroutine calls c.Read() on the same Client
PeerCallRead ==
    /\ cl.other.pc \in {"idle", "returned"}
    /\ calls < MaxCalls
    /\ calls' = calls + 1
    /\ cl' = [cl EXCEPT !.other = [NoPeer EXCEPT !.pc = "ReadFrom"]]
    /\ UNCHANGED <<client, carr, cnread, cout>>

\* the Read of the second goroutine: its ReadFrom on the one socket, and all
\* that follows it up to the next ReadFrom or the return
PeerReadFrom(rerr) ==
    /\ cl.other.pc = "ReadFrom"
    /\ ~ReadExcluded(cl)
    /\ IF rerr # ErrNil
       THEN /\ cl' = [cl EXCEPT !.other =
                        AfterReadError([@ EXCEPT !.nerr = @ + 1, !.rdErr = rerr], rerr)]
            /\ UNCHANGED cnread
       ELSE /\ cnread < Len(carr)
            /\ cnread' = cnread + 1
            /\ cl' = [cl EXCEPT !.other =
                        AfterRead([@ EXCEPT !.got = @ \cup {cnread + 1}],
                                  ReadBuf(carr[cnread + 1].b))]
    /\ UNCHANGED <<client, calls, carr, cout>>

\* the interfaces the model constructs clients on: their hardware address
\* and their addresses
InterfaceMACs == {ClientMAC, Zeros(20)}
InterfaceAddrs ==
    {<<>>,
     <<AddrV6>>,
     <<AddrV4(ClientIP)>>,
     <<AddrOther, AddrV6, AddrV4(ClientIP), AddrV4(IPb)>>,
     <<AddrV6, AddrBad, AddrV4(ClientIP)>>}

\* c, err := newClient(ifi, p, addrs)
CallNewClient(mac, addrs) ==
    /\ client = NilClient
    /\ cl.pc = "idle"
    /\ client' = newClient(mac, addrs).c
    /\ cl' = [ClientIdle EXCEPT !.pc = "returned", !.fn = "newClient",
                                !.args = <<mac, addrs>>,
                                !.ret = [NoRet EXCEPT !.err = newClient(mac, addrs).err]]
    /\ UNCHANGED <<calls, carr, cnread, cout>>

\* the arguments the model hands to Request, WriteTo and Reply
RequestIPs == {IPa, IPb16, IPv6zero}
\* a reply addressed to a third host, and a Packet of two 128-byte protocol
\* addresses
ReplyToOther == NewPacket(OperationReply, ClientMAC, ClientIP, OtherMAC, IPa).p
BigPacket == PacketOf(<<1, 2048, 1>>, 0, 128, 0, 0)
WritePackets == {ReplyToOther, BigPacket}
WriteAddrs == {Broadcast, ServerMAC}
\* requests as Read returns them, of 6-byte and of 20-byte hardware addresses
RequestFrom20 ==
    [b |-> ArpFrame(OperationRequest, Fill(20, 7), IPa, Zeros(20), ClientIP),
     from |-> OtherMAC]
ReplyRequests ==
    {parsePacket(ReadBuf(RequestFromA.b)).p, parsePacket(ReadBuf(RequestFrom20.b)).p}
ReplyMACs == {Fill(5, 0), ServerMAC, Fill(20, 40)}
ReplyIPs == {IPa, IPb16, IPv6zero}

\* a Client exists and no call is in progress on it
ClientReady ==
    /\ client # NilClient
    /\ cl.pc = "returned"
    /\ calls < MaxClientWrites

\* the call record of a write call that has ended as r tells
Wrote(fn, args, r) ==
    [ClientIdle EXCEPT !.pc = IF r.panic THEN "panic" ELSE "returned",
                       !.fn = fn, !.args = args, !.start = cnread,
                       !.wstart = Len(cout),
                       !.ret = [NoRet EXCEPT !.err = r.err]]

\* err := c.Request(ip), from the call to its return
CallRequest(ip, werr) ==
    /\ ClientReady
    /\ calls' = calls + 1
    /\ cout' = cout \o Request(client, ip, werr).out
    /\ cl' = Wrote("Request", <<ip, werr>>, Request(client, ip, werr))
    /\ UNCHANGED <<client, carr, cnread>>

\* err := c.WriteTo(p, addr), from the call to its return
CallWriteTo(p, addr, werr) ==
    /\ ClientReady
    /\ calls' = calls + 1
    /\ cout' = cout \o WriteTo(p, addr, werr).out
    /\ cl' = Wrote("WriteTo", <<p, addr, werr>>, WriteTo(p, addr, werr))
    /\ UNCHANGED <<client, carr, cnread>>

\* err := c.Reply(req, hwAddr, ip), from the call to its return
CallReply(req, hwAddr, ip, werr) ==
    /\ ClientReady
    /\ calls' = calls + 1
    /\ cout' = cout \o Reply(req, hwAddr, ip, werr).out
    /\ cl' = Wrote("Reply", <<req, hwAddr, ip, werr>>, Reply(req, hwAddr, ip, werr))
    /\ UNCHANGED <<client, carr, cnread>>

\* ------------------------------------------------------------------------
\* Server: Serve, newConn, conn.serve, response.Send
\* ------------------------------------------------------------------------

\* a Serve that returns every read error as it is
ServeResultRaw(err) == err

\* what Serve returns when ReadFrom returned err
ServeResult(err) == IF err = ErrEOF THEN ErrNil ELSE err

\* a conn whose buf is buf[:n] itself, the storage Serve reads into
newConnShared(addr, n, buf) ==
    [pc |-> "serve", remoteAddr |-> addr, buf |-> SubSeq(buf, 1, n), shared |-> TRUE,
     r |-> NilRequest, invoked |-> 0, sent |-> 0, p |-> NilPacket, werr |-> ErrNil,
     n |-> 0, err |-> ErrNil]

\* Server.newConn: a conn holding a copy of buf[:n].  shared tells whether
\* c.buf is storage of its own or the receive buffer of Serve, invoked how
\* often the handler was called, p the Packet of the last Send, werr the
\* error the socket reported to it, n and err what it returned.
newConn(addr, n, buf) ==
    [pc |-> "serve", remoteAddr |-> addr, buf |-> Copy(Zeros(n), 0, n, SubSeq(buf, 1, n)),
     shared |-> FALSE,
     r |-> NilRequest, invoked |-> 0, sent |-> 0, p |-> NilPacket, werr |-> ErrNil,
     n |-> 0, err |-> ErrNil]

\* the bytes c.buf holds when the receive buffer of Serve holds buf
ConnBytes(c, buf) == IF c.shared THEN SubSeq(buf, 1, Len(c.buf)) ELSE c.buf

\* a conn.serve that returns on errInvalidARPPacket only
ServeDropsNotARP(err) == err = errInvalidARPPacket

\* conn.serve: the errors of parseRequest on which it returns
ServeDrops(err) == err # ErrNil

\* response.Send(p): isClosed and werr are the state of the socket and the
\* error its WriteTo reports; out holds the frame written, if one was
Send(p, remoteAddr, isClosed, werr) ==
    LET pb == MarshalBinary(p)
        fb == FrameMarshal([Destination |-> p.TargetMAC, Source |-> p.SenderMAC,
                            EtherType |-> EtherTypeARP, Payload |-> pb.b])
    IN  IF pb.panic
        THEN [n |-> 0, err |-> ErrNil, out |-> <<>>, panic |-> TRUE]
        ELSE IF isClosed
        THEN [n |-> 0, err |-> ErrClosed, out |-> <<>>, panic |-> FALSE]
        ELSE IF werr # ErrNil
        THEN [n |-> 0, err |-> werr, out |-> <<>>, panic |-> FALSE]
        ELSE [n |-> Len(fb), err |-> ErrNil,
              out |-> <<[b |-> fb, to |-> remoteAddr]>>, panic |-> FALSE]

\* a handler's answer to the request r: a reply from the address asked for,
\* addressed to the request's sender
Answer(r) == NewPacket(OperationReply, ServerMAC, r.TargetIP, r.SenderMAC, r.SenderIP)

\* the Packets the handlers of the server alone pass to Send: a reply
\* addressed to a third host, and a Packet of two 128-byte protocol addresses
HandlerPackets == {ReplyToOther, BigPacket}

\* Serve not called yet.  rerr is the error that ended the loop, failedAt the
\* number of datagrams read before it.
ServerIdle ==
    [pc |-> "idle", buf |-> Zeros(ReadBufSize), ret |-> "none", rerr |-> ErrNil,
     failedAt |-> 0]

\* a task has panicked: no goroutine recovers, so the process of the server
\* has ended, and with it Serve and every task
Crashed == \E t \in 1..Len(tasks) : tasks[t].pc = "panic"

ServerNetInit ==
    /\ srv = ServerIdle
    /\ sarr = <<>>
    /\ snread = 0
    /\ sout = <<>>
    /\ tasks = <<>>
    /\ closed = FALSE

\* a datagram arrives at the server's socket
ServerArrive(d) ==
    /\ ~Crashed
    /\ Len(sarr) < MaxDatagrams
    /\ sarr' = Append(sarr, d)
    /\ UNCHANGED <<srv, snread, sout, tasks, closed>>

\* err := s.Serve(p) is called: defer p.Close(), buf := make([]byte, 128)
CallServe ==
    /\ srv.pc = "idle"
    /\ srv' = [srv EXCEPT !.pc = "ReadFrom"]
    /\ UNCHANGED <<sarr, snread, sout, tasks, closed>>

\* a Serve that calls c.serve() itself: it is back at ReadFrom only when
\* the task it dispatched has returned
ServeWaitsInline(ts) == \E t \in 1..Len(ts) : ts[t].pc \in {"serve", "handler"}

\* go c.serve(): whether Serve, having dispatched the tasks ts, waits for one
\* of them before its next ReadFrom
ServeWaits(ts) == FALSE

\* Serve: n, addr, err := p.ReadFrom(buf), then the return or newConn and
\* go c.serve(); rerr is the error the socket reports
ServeReadFrom(rerr) ==
    /\ ~Crashed
    /\ srv.pc = "ReadFrom"
    /\ ~ServeWaits(tasks)
    /\ IF rerr # ErrNil
       THEN /\ srv' = [srv EXCEPT !.pc = "deferred", !.ret = ServeResult(rerr),
                                  !.rerr = rerr, !.failedAt = snread]
            /\ UNCHANGED <<snread, tasks>>
       ELSE /\ snread < Len(sarr)
            /\ LET d == sarr[snread + 1]
                   n == Min(Len(d.b), ReadBufSize)
                   buf == Copy(srv.buf, 0, ReadBufSize, d.b)
               IN  /\ srv' = [srv EXCEPT !.buf = buf]
                   /\ tasks' = Append(tasks, newConn(d.from, n, buf))
            /\ snread' = snread + 1
    /\ UNCHANGED <<sarr, sout, closed>>

\* a Serve that returns only when every task it dispatched has ended
ServeAwaitsTasks(ts) == \E t \in 1..Len(ts) : ts[t].pc \in {"serve", "handler"}

\* Serve keeps no account of the tasks ts it dispatched: whether it waits
\* for one of them before it closes the socket and returns
ServeAwaits(ts) == FALSE

\* Serve: the deferred p.Close() runs, and Serve returns
ServeClose ==
    /\ ~Crashed
    /\ srv.pc = "deferred"
    /\ ~ServeAwaits(tasks)
    /\ closed' = TRUE
    /\ srv' = [srv EXCEPT !.pc = "returned"]
    /\ UNCHANGED <<sarr, snread, sout, tasks>>

\* conn.serve up to the call of the handler
TaskServe(t) ==
    /\ t \in 1..Len(tasks)
    /\ ~Crashed
    /\ tasks[t].pc = "serve"
    /\ LET r == parseRequest(ConnBytes(tasks[t], srv.buf))
       IN  tasks' = [tasks EXCEPT ![t] =
                IF r.panic THEN [@ EXCEPT !.pc = "panic"]
                ELSE IF ServeDrops(r.err) THEN [@ EXCEPT !.pc = "done"]
                ELSE [@ EXCEPT !.pc = "handler", !.r = r.r, !.invoked = @ + 1]]
    /\ UNCHANGED <<srv, sarr, snread, sout, closed>>

\* the handler calls w.Send(p)
HandlerSend(t, p, werr) ==
    /\ t \in 1..Len(tasks)
    /\ ~Crashed
    /\ tasks[t].pc = "handler"
    /\ tasks[t].sent < MaxSends
    /\ tasks[t].r # NilRequest
    /\ p # NilPacket
    /\ LET s == Send(p, tasks[t].remoteAddr, closed, werr)
       IN  /\ sout' = sout \o s.out
           /\ tasks' = [tasks EXCEPT ![t] =
                IF s.panic THEN [@ EXCEPT !.pc = "panic", !.p = p, !.werr = ErrNil,
                                          !.n = 0, !.err = ErrNil]
                ELSE [@ EXCEPT !.sent = @ + 1, !.p = p, !.werr = werr,
                               !.n = s.n, !.err = s.err]]
    /\ UNCHANGED <<srv, sarr, snread, closed>>

\* the handler returns, and conn.serve with it: the response and what its
\* last Send was given and returned are gone
HandlerReturn(t) ==
    /\ t \in 1..Len(tasks)
    /\ ~Crashed
    /\ tasks[t].pc = "handler"
    /\ tasks' = [tasks EXCEPT ![t] = [@ EXCEPT !.pc = "done", !.sent = 0,
                                                  !.p = NilPacket, !.werr = ErrNil,
                                                  !.n = 0, !.err = ErrNil]]
    /\ UNCHANGED <<srv, sarr, snread, sout, closed>>

\* ------------------------------------------------------------------------
\* The link between the client's socket and the server's
\* ------------------------------------------------------------------------

LinkInit ==
    /\ cdeliv = 0
    /\ sdeliv = 0

\* the next frame the client wrote reaches the server's socket
LinkToServer ==
    /\ cdeliv < Len(cout)
    /\ cdeliv' = cdeliv + 1
    /\ sarr' = IF cout[cdeliv + 1].to \in {Broadcast, ServerMAC}
               THEN Append(sarr, [b |-> cout[cdeliv + 1].b, from |-> client.mac])
               ELSE sarr
    /\ UNCHANGED <<sdeliv, srv, snread, sout, tasks, closed>>

\* the next frame the server wrote reaches the host it was written to
LinkToClient ==
    /\ sdeliv < Len(sout)
    /\ sdeliv' = sdeliv + 1
    /\ carr' = IF sout[sdeliv + 1].to \in {Broadcast, client.mac}
               THEN Append(carr, [b |-> sout[sdeliv + 1].b, from |-> ServerMAC])
               ELSE carr
    /\ UNCHANGED <<cdeliv, client, cl, calls, cnread, cout>>

\* ------------------------------------------------------------------------
\* Specifications
\* ------------------------------------------------------------------------

CodecIdle ==
    /\ pkt = NilPacket
    /\ wire = <<>>
    /\ last = NoCall
    /\ orig = NilPacket

\* the codec alone, driven by the harness
InitCodec ==
    /\ CodecInit
    /\ client = [mac |-> ClientMAC, ip |-> ClientIP]
    /\ ClientNetInit
    /\ ServerNetInit
    /\ LinkInit

CodecOnly == UNCHANGED <<clientVars, serverVars, linkVars>>

NextCodec ==
    \/ /\ HarnessEmpty
       /\ \E op \in {OperationRequest, OperationReply}, srcMAC \in MACInputs,
             srcIP \in IPInputs, dstMAC \in MACInputs, dstIP \in IPInputs :
               CallNewPacket(op, srcMAC, srcIP, dstMAC, dstIP)
       /\ CodecOnly
    \/ CallMarshalBinary /\ CodecOnly
    \/ (\E fresh \in BOOLEAN : CallUnmarshalBinary(fresh)) /\ CodecOnly
    \/ (\E i \in {9, Len(wire)} : WriteInput(i)) /\ CodecOnly
    \/ (\E f \in AddrFields : WriteField(f)) /\ CodecOnly

SpecCodec == InitCodec /\ [][NextCodec]_vars

\* a client whose socket receives whatever the broadcast domain carries
InitClient ==
    /\ CodecIdle
    /\ client \in ClientConfigs
    /\ ClientNetInit
    /\ ServerNetInit
    /\ LinkInit

ClientOnly == UNCHANGED <<codecVars, serverVars, linkVars>>

NextClient ==
    \/ (\E d \in ClientDatagrams : ClientArrive(d)) /\ ClientOnly
    \/ (\E ip \in ResolveIPs : CallResolve(ip)) /\ ClientOnly
    \/ CallRead /\ ClientOnly
    \/ (\E werr \in {ErrNil, ErrWrite} : ResolveRequest(werr)) /\ ClientOnly
    \/ (\E rerr \in {ErrNil, ErrTimeout} : ClientReadFrom(rerr)) /\ ClientOnly

SpecClient == InitClient /\ [][NextClient]_vars

\* Resolve on a socket that delivers frames of another protocol, requests
\* and replies, when the goroutine that called Resolve keeps running: it
\* reads whatever datagram has arrived.  Nothing is assumed of the socket:
\* it need neither deliver a datagram nor report an error.
ResolveDatagrams == {NonARPFrame, RequestFromA, ReplyFromB, ReplyFromA}
InitResolveLive ==
    /\ CodecIdle
    /\ client = newClient(ClientMAC, <<AddrV4(ClientIP)>>).c
    /\ ClientNetInit
    /\ ServerNetInit
    /\ LinkInit
NextResolveLive ==
    \/ (\E d \in ResolveDatagrams : ClientArrive(d)) /\ ClientOnly
    \/ (\E ip \in {IPa, IPb16} : CallResolve(ip)) /\ ClientOnly
    \/ (\E werr \in {ErrNil, ErrWrite} : ResolveRequest(werr)) /\ ClientOnly
    \/ (\E rerr \in {ErrNil, ErrTimeout} : ClientReadFrom(rerr)) /\ ClientOnly
FairResolve == WF_vars(ClientReadFrom(ErrNil) /\ ClientOnly)
SpecResolveLive == InitResolveLive /\ [][NextResolveLive]_vars /\ FairResolve

\* a Resolve and, from a second goroutine, Read calls on the same Client
RaceDatagrams == {NonARPFrame, ReplyFromB, ReplyFromA}
NextRace ==
    \/ (\E d \in RaceDatagrams : ClientArrive(d)) /\ ClientOnly
    \/ CallResolve(IPa) /\ ClientOnly
    \/ ResolveRequest(ErrNil) /\ ClientOnly
    \/ (\E rerr \in {ErrNil, ErrTimeout} : ClientReadFrom(rerr)) /\ ClientOnly
    \/ PeerCallRead /\ ClientOnly
    \/ (\E rerr \in {ErrNil, ErrTimeout} : PeerReadFrom(rerr)) /\ ClientOnly
SpecRace == InitResolveLive /\ [][NextRace]_vars

\* the construction of a client and its writing calls
InitWrite ==
    /\ CodecIdle
    /\ client = NilClient
    /\ ClientNetInit
    /\ ServerNetInit
    /\ LinkInit

NextWrite ==
    \/ (\E mac \in InterfaceMACs, addrs \in InterfaceAddrs :
            CallNewClient(mac, addrs)) /\ ClientOnly
    \/ ClientArrive(ReplyFromA) /\ ClientOnly
    \/ (\E ip \in RequestIPs, werr \in {ErrNil, ErrWrite} :
            CallRequest(ip, werr)) /\ ClientOnly
    \/ (\E p \in WritePackets, addr \in WriteAddrs, werr \in {ErrNil, ErrWrite} :
            CallWriteTo(p, addr, werr)) /\ ClientOnly
    \/ (\E req \in ReplyRequests, hwAddr \in ReplyMACs, ip \in ReplyIPs,
           werr \in {ErrNil, ErrWrite} :
            CallReply(req, hwAddr, ip, werr)) /\ ClientOnly

SpecWrite == InitWrite /\ [][NextWrite]_vars

\* the two parsers alone, handed datagrams cut at every boundary
\* the checks of parsePacket look at: ARP frames of 6-byte and of 20-byte
\* hardware addresses, a truncated one, and frames of another EtherType
\* with a well-formed and with a short ARP packet as payload
ParseFrames ==
    {ReplyFromB.b,
     RequestFrom20.b,
     TruncatedARP.b,
     FrameMarshal([Destination |-> ClientMAC, Source |-> OtherMAC,
                   EtherType |-> EtherTypeIPv4,
                   Payload |-> SubSeq(ReplyFromB.b, 15, 42)]),
     NonARPFrame.b}
ParseCuts == {0, 13, 14, 21, 22, 41, 42, 43, 69, 70, 71}
ParseInputs == {SubSeq(fb, 1, Min(n, Len(fb))) : fb \in ParseFrames, n \in ParseCuts}

InitParse ==
    /\ pkt = NilPacket
    /\ wire \in ParseInputs
    /\ last = NoCall
    /\ orig = NilPacket
    /\ client = [mac |-> ClientMAC, ip |-> ClientIP]
    /\ ClientNetInit
    /\ ServerNetInit
    /\ LinkInit

\* p, f, err := parsePacket(buf)
CallParsePacket ==
    /\ LET r == parsePacket(wire)
       IN  last' = [NoCall EXCEPT !.op = "parsePacket", !.err = r.err,
                                  !.panic = r.panic, !.args = <<r.p, r.f>>]
    /\ UNCHANGED <<pkt, wire, orig>>

\* r, err := parseRequest(buf)
CallParseRequest ==
    /\ LET r == parseRequest(wire)
       IN  last' = [NoCall EXCEPT !.op = "parseRequest", !.err = r.err,
                                  !.panic = r.panic, !.args = <<r.r>>]
    /\ UNCHANGED <<pkt, wire, orig>>

NextParse ==
    \/ CallParsePacket /\ CodecOnly
    \/ CallParseRequest /\ CodecOnly

SpecParse == InitParse /\ [][NextParse]_vars

\* a server whose socket receives whatever the broadcast domain carries,
\* with a handler that answers or not
InitServer ==
    /\ CodecIdle
    /\ client = [mac |-> ClientMAC, ip |-> ClientIP]
    /\ ClientNetInit
    /\ ServerNetInit
    /\ LinkInit

ServerOnly == UNCHANGED <<codecVars, clientVars, linkVars>>

NextServer ==
    \/ (\E d \in ServerDatagrams : ServerArrive(d)) /\ ServerOnly
    \/ CallServe /\ ServerOnly
    \/ (\E rerr \in {ErrNil} \cup ReadErrors : ServeReadFrom(rerr)) /\ ServerOnly
    \/ ServeClose /\ ServerOnly
    \/ (\E t \in 1..Len(tasks) : TaskServe(t)) /\ ServerOnly
    \/ (\E t \in 1..Len(tasks), werr \in {ErrNil, ErrWrite} :
            \E p \in HandlerPackets : HandlerSend(t, p, werr)) /\ ServerOnly
    \/ (\E t \in 1..Len(tasks) : HandlerReturn(t)) /\ ServerOnly

SpecServer == InitServer /\ [][NextServer]_vars

\* a server that receives requests and frames of another protocol, with
\* handlers that answer without error or not at all, when the goroutine of
\* Serve keeps running; nothing is assumed of the tasks and their handlers,
\* which may stop anywhere for ever
LiveDatagrams == {NonARPFrame, RequestForA}
NextServerLive ==
    \/ (\E d \in LiveDatagrams : ServerArrive(d)) /\ ServerOnly
    \/ CallServe /\ ServerOnly
    \/ (\E rerr \in {ErrNil, ErrEOF} : ServeReadFrom(rerr)) /\ ServerOnly
    \/ ServeClose /\ ServerOnly
    \/ (\E t \in 1..Len(tasks) : TaskServe(t)) /\ ServerOnly
    \/ (\E t \in 1..Len(tasks) : HandlerSend(t, ReplyToOther, ErrNil)) /\ ServerOnly
    \/ (\E t \in 1..Len(tasks) : HandlerReturn(t)) /\ ServerOnly
FairServe ==
    /\ WF_vars(CallServe /\ ServerOnly)
    /\ WF_vars(ServeReadFrom(ErrNil) /\ ServerOnly)
SpecServerLive == InitServer /\ [][NextServerLive]_vars /\ FairServe

\* requests between hosts of 49-byte and of 50-byte hardware addresses:
\* frames of 128 and of 130 bytes
RequestOf128 ==
    [b |-> ArpFrame(OperationRequest, Fill(49, 7), IPa, Zeros(49), ClientIP),
     from |-> OtherMAC]
RequestOf130 ==
    [b |-> ArpFrame(OperationRequest, Fill(50, 7), IPa, Zeros(50), ClientIP),
     from |-> OtherMAC]
BufDatagrams == {RequestOf128, RequestOf130}

\* a client that calls Read and a server, each on a socket of its own that
\* delivers frames as long as the receive buffer and longer
NextBuf ==
    \/ (\E d \in BufDatagrams : ClientArrive(d)) /\ ClientOnly
    \/ CallRead /\ ClientOnly
    \/ ClientReadFrom(ErrNil) /\ ClientOnly
    \/ (\E d \in BufDatagrams : ServerArrive(d)) /\ ServerOnly
    \/ CallServe /\ ServerOnly
    \/ ServeReadFrom(ErrNil) /\ ServerOnly
    \/ (\E t \in 1..Len(tasks) : TaskServe(t)) /\ ServerOnly
    \/ (\E t \in 1..Len(tasks) : HandlerReturn(t)) /\ ServerOnly
SpecBuf == InitServer /\ [][NextBuf]_vars

\* one client and one server on a link that carries every frame; the
\* handler answers each request once, no socket reports an error
InitE2E ==
    /\ CodecIdle
    /\ client = [mac |-> ClientMAC, ip |-> ClientIP]
    /\ ClientNetInit
    /\ ServerNetInit
    /\ LinkInit

E2ECall ==
    /\ \E ip \in {IPa, IPb, IPb16} : CallResolve(ip)
    /\ UNCHANGED <<codecVars, serverVars, linkVars>>
E2ERequest ==
    ResolveRequest(ErrNil) /\ UNCHANGED <<codecVars, serverVars, linkVars>>
E2EClientRead ==
    ClientReadFrom(ErrNil) /\ UNCHANGED <<codecVars, serverVars, linkVars>>
E2EToServer == LinkToServer /\ UNCHANGED <<codecVars, clientVars>>
E2EToClient == LinkToClient /\ UNCHANGED <<codecVars, serverVars>>
E2EServe == CallServe /\ UNCHANGED <<codecVars, clientVars, linkVars>>
E2EServeRead ==
    ServeReadFrom(ErrNil) /\ UNCHANGED <<codecVars, clientVars, linkVars>>
E2ETask(t) == TaskServe(t) /\ UNCHANGED <<codecVars, clientVars, linkVars>>
E2EAnswer(t) ==
    /\ t \in 1..Len(tasks)
    /\ tasks[t].pc = "handler"
    /\ tasks[t].sent = 0
    /\ HandlerSend(t, Answer(tasks[t].r).p, ErrNil)
    /\ UNCHANGED <<codecVars, clientVars, linkVars>>
E2EReturn(t) ==
    /\ t \in 1..Len(tasks)
    /\ tasks[t].sent > 0
    /\ HandlerReturn(t)
    /\ UNCHANGED <<codecVars, clientVars, linkVars>>

NextE2E ==
    \/ E2ECall
    \/ E2ERequest
    \/ E2EClientRead
    \/ E2EToServer
    \/ E2EToClient
    \/ E2EServe
    \/ E2EServeRead
    \/ \E t \in 1..MaxCalls : E2ETask(t)
    \/ \E t \in 1..MaxCalls : E2EAnswer(t)
    \/ \E t \in 1..MaxCalls : E2EReturn(t)

\* every goroutine that can take a step takes one, and the link carries
\* every frame
FairE2E ==
    /\ WF_vars(E2ERequest)
    /\ WF_vars(E2EClientRead)
    /\ WF_vars(E2EToServer)
    /\ WF_vars(E2EToClient)
    /\ WF_vars(E2EServe)
    /\ WF_vars(E2EServeRead)
    /\ \A t \in 1..MaxCalls :
        WF_vars(E2ETask(t)) /\ WF_vars(E2EAnswer(t)) /\ WF_vars(E2EReturn(t))

SpecE2E == InitE2E /\ [][NextE2E]_vars /\ FairE2E


\* ------------------------------------------------------------------------
\* Properties of the codec
\* ------------------------------------------------------------------------

\* the four address slices have the declared lengths
Consistent(p) ==
    /\ p # NilPacket
    /\ Len(p.SenderMAC) = p.MACLength
    /\ Len(p.TargetMAC) = p.MACLength
    /\ Len(p.SenderIP) = p.IPLength
    /\ Len(p.TargetIP) = p.IPLength

\* the size the wire format gives a Packet, in unbounded arithmetic
WireSize(p) == 8 + 2 * p.MACLength + 2 * p.IPLength

\* C1: for every Packet whose four address fields have the declared lengths
\* (lengths anywhere in 0..255, any header values), MarshalBinary succeeds
\* and UnmarshalBinary of its output succeeds and yields an equal Packet.
C1_RoundTrip ==
    /\ (last.op = "MarshalBinary" /\ Consistent(pkt))
          => (~last.panic /\ last.err = ErrNil)
    /\ (last.op = "UnmarshalBinary" /\ orig # NilPacket /\ Consistent(orig))
          => (~last.panic /\ last.err = ErrNil /\ pkt = orig)

\* The round trip as the code has it: it holds of every consistent Packet
\* whose wire size fits a uint8.
RoundTripBelow256 ==
    /\ (last.op = "MarshalBinary" /\ Consistent(pkt) /\ WireSize(pkt) <= 255)
          => (~last.panic /\ last.err = ErrNil)
    /\ (last.op = "UnmarshalBinary" /\ orig # NilPacket /\ Consistent(orig))
          => (~last.panic /\ last.err = ErrNil /\ pkt = orig)

\* C2: UnmarshalBinary(b) fails with io.ErrUnexpectedEOF exactly when
\* len(b) < 8 or len(b) < 8 + 2*b[4] + 2*b[5]; on every other input it
\* succeeds; it never slices b beyond len(b) (no panic).
C2_DecodeShortBuffer ==
    last.op = "UnmarshalBinary" =>
        /\ ~last.panic
        /\ last.err \in {ErrNil, ErrUnexpectedEOF}
        /\ (last.err = ErrUnexpectedEOF) <=>
              (Len(wire) < 8 \/ Len(wire) < 8 + 2 * wire[5] + 2 * wire[6])

\* a header declaring a 255-byte hardware address with too few bytes behind
\* it has been refused
C2_Witness ==
    /\ last.op = "UnmarshalBinary"
    /\ orig = NilPacket
    /\ Len(wire) >= 8
    /\ wire[5] = 255
    /\ Len(wire) = 8 + 2 * wire[5] + 2 * wire[6] - 1
    /\ last.err = ErrUnexpectedEOF

\* C3: MarshalBinary returns a slice of length exactly
\* 8 + 2*MACLength + 2*IPLength for every Packet, lengths in 0..255, whatever
\* the actual lengths of the address slices.
C3_EncodeLength ==
    last.op = "MarshalBinary" =>
        (~last.panic /\ last.err = ErrNil /\ Len(wire) = WireSize(pkt))

\* The size as the code has it: exact whenever it fits a uint8.
EncodeLengthBelow256 ==
    (last.op = "MarshalBinary" /\ WireSize(pkt) <= 255) =>
        (~last.panic /\ last.err = ErrNil /\ Len(wire) = WireSize(pkt))

\* MarshalBinary panics on every Packet whose wire size does not fit a uint8
EncodePanicsFrom256 ==
    (last.op = "MarshalBinary" /\ WireSize(pkt) >= 256) => last.panic

\* an address representable as a 4-byte IPv4 address
IsIPv4(ip) ==
    \/ Len(ip) = 4
    \/ /\ Len(ip) = 16
       /\ SubSeq(ip, 1, 12) = <<0, 0, 0, 0, 0, 0, 0, 0, 0, 0, 255, 255>>

C5_IPoIBRequestAccepted ==
    (/\ last.op = "NewPacket"
     /\ last.args = <<OperationRequest, Zeros(20), IPv4zero, Broadcast, IPv4zero>>)
        => /\ last.err = ErrNil
           /\ pkt = [HardwareType |-> 1, ProtocolType |-> EtherTypeIPv4,
                     MACLength |-> 20, IPLength |-> 4,
                     Operation |-> OperationRequest,
                     SenderMAC |-> Zeros(20), SenderIP |-> <<0, 0, 0, 0>>,
                     TargetMAC |-> Broadcast, TargetIP |-> <<0, 0, 0, 0>>]

\* the n bytes an address a leaves in a field of n bytes of a fresh buffer:
\* its first n bytes, and zeros where it has none
Fit(a, n) == [i \in 1..n |-> IF i <= Len(a) THEN a[i] ELSE 0]

\* the field of n bytes at offset off of the buffer b
Field(b, off, n) == [i \in 1..n |-> b[off + i]]

\* the four address fields of b, laid out by the declared lengths of p, hold
\* what a(x, n) makes of each address x of p
AddressesAre(b, p, a(_, _)) ==
    LET hal == p.MACLength
        pl == p.IPLength
    IN  /\ Field(b, 8, hal) = a(p.SenderMAC, hal)
        /\ Field(b, 8 + hal, pl) = a(p.SenderIP, pl)
        /\ Field(b, 8 + hal + pl, hal) = a(p.TargetMAC, hal)
        /\ Field(b, 8 + 2 * hal + pl, pl) = a(p.TargetIP, pl)

\* an address as it is
Whole(x, n) == [i \in 1..Len(x) |-> x[i]]

C23_DecodeLayout ==
    last.op = "UnmarshalBinary" =>
        /\ (Len(wire) >= 8 /\ Len(wire) >= 8 + 2 * wire[5] + 2 * wire[6])
              => (last.err = ErrNil /\ ~last.panic)
        /\ (last.err = ErrNil /\ ~last.panic)
              => /\ pkt.HardwareType = 256 * wire[1] + wire[2]
                 /\ pkt.ProtocolType = 256 * wire[3] + wire[4]
                 /\ pkt.MACLength = wire[5]
                 /\ pkt.IPLength = wire[6]
                 /\ pkt.Operation = 256 * wire[7] + wire[8]
                 /\ Consistent(pkt)
                 /\ AddressesAre(wire, pkt, Whole)

\* a buffer with a byte beyond its four addresses, of 6 and 4 bytes, was
\* decoded; its header fields differ when read low byte first
C23_Witness ==
    /\ last.op = "UnmarshalBinary"
    /\ last.err = ErrNil
    /\ orig = NilPacket
    /\ Len(wire) = 8 + 2 * wire[5] + 2 * wire[6] + 1
    /\ pkt.MACLength = 6
    /\ pkt.IPLength = 4
    /\ pkt.HardwareType = 258
    /\ pkt.Operation = 772
    /\ pkt.TargetIP = SubSeq(wire, 25, 28)

\* C24: parsePacket(buf) fails with the error of the frame decoder when buf
\* is too short for a frame header; otherwise with errInvalidARPPacket when
\* the EtherType is not 0x0806, whatever the payload; otherwise with
\* io.ErrUnexpectedEOF when the payload is too short for the header or the
\* lengths it declares; otherwise it returns the Packet and its frame, and
\* nothing but the error in the three cases before.  parseRequest reports
\* the same error for the same buf and a Request when there is none.
C24_ParseErrorOrder ==
    last.op \in {"parsePacket", "parseRequest"} =>
        LET noFrame == Len(wire) < 14
            notARP == ~noFrame /\ 256 * wire[13] + wire[14] # 2054
            payload == Len(wire) - 14
            short == /\ ~noFrame
                     /\ ~notARP
                     /\ \/ payload < 8
                        \/ payload < 8 + 2 * wire[19] + 2 * wire[20]
            results == IF last.op = "parsePacket"
                       THEN {last.args[1], last.args[2]}
                       ELSE {last.args[1]}
        IN  /\ ~last.panic
            /\ noFrame => (last.err = FrameUnmarshal(wire).err /\ last.err # ErrNil)
            /\ notARP => last.err = errInvalidARPPacket
            /\ short => last.err = ErrUnexpectedEOF
            /\ (~noFrame /\ ~notARP /\ ~short) => last.err = ErrNil
            /\ last.err # ErrNil => results = {[nil |-> TRUE]}
            /\ last.err = ErrNil => [nil |-> TRUE] \notin results
            /\ (last.op = "parsePacket" /\ last.err = ErrNil)
                  => /\ last.args[1] = UnmarshalBinary(ZeroPacket,
                                           SubSeq(wire, 15, Len(wire))).p
                     /\ last.args[2] = FrameUnmarshal(wire).f
            /\ parseRequest(wire).err = parsePacket(wire).err

\* parseRequest refused a frame of another EtherType whose payload is too
\* short for an ARP packet as not ARP
C24_Witness ==
    /\ last.op = "parseRequest"
    /\ last.err = errInvalidARPPacket
    /\ Len(wire) = 21
    /\ last.args = <<NilRequest>>

\* the 4-byte form of an address representable as an IPv4 address
FourByteForm(ip) == IF Len(ip) = 4 THEN ip ELSE SubSeq(ip, Len(ip) - 3, Len(ip))

\* C21: a NewPacket that succeeds returns a Packet with HardwareType 1,
\* ProtocolType 0x0800, the operation given, MACLength the length of the
\* hardware addresses given, whatever that length is from 6 bytes up,
\* IPLength 4, the two hardware addresses given and the two IP addresses
\* given in their 4-byte form.
C21_NewPacketFields ==
    (last.op = "NewPacket" /\ last.err = ErrNil) =>
        /\ pkt # NilPacket
        /\ pkt.HardwareType = 1
        /\ pkt.ProtocolType = 2048
        /\ pkt.Operation = last.args[1]
        /\ pkt.MACLength = Len(last.args[2])
        /\ pkt.IPLength = 4
        /\ pkt.SenderMAC = last.args[2]
        /\ pkt.TargetMAC = last.args[4]
        /\ pkt.SenderIP = FourByteForm(last.args[3])
        /\ pkt.TargetIP = FourByteForm(last.args[5])

\* NewPacket as the code has it: MACLength is the length of the hardware
\* addresses modulo 256, and the other fields are as C21 has them.
NewPacketFieldsMod256 ==
    (last.op = "NewPacket" /\ last.err = ErrNil) =>
        /\ pkt # NilPacket
        /\ pkt.HardwareType = 1
        /\ pkt.ProtocolType = 2048
        /\ pkt.Operation = last.args[1]
        /\ pkt.MACLength = Len(last.args[2]) % 256
        /\ pkt.IPLength = 4
        /\ pkt.SenderMAC = last.args[2]
        /\ pkt.TargetMAC = last.args[4]
        /\ pkt.SenderIP = FourByteForm(last.args[3])
        /\ pkt.TargetIP = FourByteForm(last.args[5])

\* NewPacket accepted hardware addresses of 256 bytes and declared none
NewPacketWrapped ==
    /\ last.op = "NewPacket"
    /\ last.err = ErrNil
    /\ Len(last.args[2]) = 256
    /\ pkt.MACLength = 0
    /\ Len(pkt.SenderMAC) = 256

\* ------------------------------------------------------------------------
\* Properties of the client
\* ------------------------------------------------------------------------

\* what parsePacket makes of the i-th datagram that arrived at the client
Parsed(i) == parsePacket(ReadBuf(carr[i].b))

\* the same address: the same bytes, or the same IPv4 address in 4-byte and
\* in 16-byte form
SameAddress(x, y) == x = y \/ (To4(x) # <<>> /\ To4(x) = To4(y))

\* a datagram Resolve(ip) passes over: a frame that is not ARP, a request, or
\* a packet from another sender protocol address
Discarded(i, ip) ==
    \/ Parsed(i).err = errInvalidARPPacket
    \/ /\ Parsed(i).err = ErrNil
       /\ \/ Parsed(i).p.Operation # OperationReply
          \/ ~SameAddress(Parsed(i).p.SenderIP, ip)

\* C6: Resolve(ip) returns a hardware address only as the sender hardware
\* address of an inbound packet that is a Reply whose sender protocol address
\* is ip; every datagram read before it in the call was a non-ARP frame, a
\* request or a packet from another sender, and was discarded; nothing of the
\* matching reply but its operation and sender protocol address is looked at.
C6_ResolveFirstMatch ==
    /\ (cl.fn = "Resolve" /\ cl.pc = "ReadFrom")
          => \A j \in (cl.start + 1)..cnread : Discarded(j, cl.ip)
    /\ (cl.fn = "Resolve" /\ cl.pc = "returned" /\ cl.ret.err # ErrNil)
          => cl.ret.mac = <<>>
    /\ (cl.fn = "Resolve" /\ cl.pc = "returned" /\ cl.ret.err = ErrNil)
          => /\ cnread > cl.start
             /\ Parsed(cnread).err = ErrNil
             /\ Parsed(cnread).p.Operation = OperationReply
             /\ SameAddress(Parsed(cnread).p.SenderIP, cl.ip)
             /\ cl.ret.mac = Parsed(cnread).p.SenderMAC
             /\ \A j \in (cl.start + 1)..(cnread - 1) : Discarded(j, cl.ip)

\* Resolve(IPa) passed over a request sent from IPa and returned the sender
\* of a reply from IPa that was addressed to a third host
C6_Witness ==
    /\ cl.fn = "Resolve"
    /\ cl.pc = "returned"
    /\ cl.ip = IPa
    /\ cnread = cl.start + 2
    /\ carr[cnread - 1] = RequestFromA
    /\ carr[cnread] = ReplyFromA
    /\ cl.ret.err = ErrNil
    /\ cl.ret.mac = ServerMAC

\* a well-formed frame whose EtherType is not ARP, as the socket hands it over
IsNonARP(d) ==
    /\ FrameUnmarshal(ReadBuf(d.b)).err = ErrNil
    /\ FrameUnmarshal(ReadBuf(d.b)).f.EtherType # EtherTypeARP

\* C7: no client call returns errInvalidARPPacket; Read passes over every
\* non-ARP frame, and what it returns is the Packet and the frame of the
\* first datagram in arrival order that is not a non-ARP frame.
C7_ReadSkipsNonARP ==
    /\ cl.pc = "returned" => cl.ret.err # errInvalidARPPacket
    /\ (cl.fn = "Read" /\ cl.pc = "ReadFrom")
          => \A j \in (cl.start + 1)..cnread : IsNonARP(carr[j])
    /\ (cl.fn = "Read" /\ cl.pc = "returned")
          => /\ \A j \in (cl.start + 1)..(cnread - 1) : IsNonARP(carr[j])
             /\ cl.nerr > 0 => \A j \in (cl.start + 1)..cnread : IsNonARP(carr[j])
             /\ cl.nerr = 0 => (cnread > cl.start /\ ~IsNonARP(carr[cnread]))
             /\ cl.ret.err = ErrNil
                   => /\ cl.nerr = 0
                      /\ FrameUnmarshal(ReadBuf(carr[cnread].b)).f.EtherType = EtherTypeARP
                      /\ cl.ret.f = FrameUnmarshal(ReadBuf(carr[cnread].b)).f
                      /\ cl.ret.p = UnmarshalBinary(ZeroPacket, cl.ret.f.Payload).p

\* Read passed over a non-ARP frame and returned the reply behind it
C7_Witness ==
    /\ cl.fn = "Read"
    /\ cl.pc = "returned"
    /\ cnread = cl.start + 2
    /\ carr[cnread - 1] = NonARPFrame
    /\ carr[cnread] = ReplyFromA
    /\ cl.ret.err = ErrNil
    /\ cl.ret.p.Operation = OperationReply
    /\ cl.ret.p.SenderMAC = ServerMAC
    /\ cl.ret.f.Source = ServerMAC

\* an ARP frame whose packet is too short for the lengths it declares
IsShortARP(d) ==
    LET fr == FrameUnmarshal(ReadBuf(d.b))
    IN  /\ fr.err = ErrNil
        /\ fr.f.EtherType = EtherTypeARP
        /\ \/ Len(fr.f.Payload) < 8
           \/ Len(fr.f.Payload) < 8 + 2 * fr.f.Payload[5] + 2 * fr.f.Payload[6]

\* C8: an error of the socket's ReadFrom, and io.ErrUnexpectedEOF from the
\* decoding of an ARP frame, end the call they occur in: the call returns
\* that error, having read nothing after it; a Resolve call has written
\* its request once when it reads and never again.
C8_ErrorsSurfaceOnce ==
    /\ cl.nerr > 0
          => (cl.pc = "returned" /\ cl.nerr = 1 /\ cl.ret.err = cl.rdErr)
    /\ \A j \in (cl.start + 1)..cnread :
          (cl.fn \in {"Read", "Resolve"} /\ IsShortARP(carr[j]))
             => /\ j = cnread
                /\ cl.pc = "returned"
                /\ cl.nerr = 0
                /\ cl.ret.err = ErrUnexpectedEOF
    /\ (cl.fn = "Resolve" /\ cl.pc = "ReadFrom") => Len(cout) = cl.wstart + 1
    /\ (cl.fn = "Resolve" /\ cl.pc = "returned")
          => /\ Len(cout) <= cl.wstart + 1
             /\ (cnread > cl.start \/ cl.nerr > 0) => Len(cout) = cl.wstart + 1

\* Resolve returned the decoding error of a truncated ARP frame while a
\* datagram behind it was still unread, having written one request
C8_Witness ==
    /\ cl.fn = "Resolve"
    /\ cl.pc = "returned"
    /\ cnread > cl.start
    /\ carr[cnread] = TruncatedARP
    /\ cnread < Len(carr)
    /\ cl.ret.err = ErrUnexpectedEOF
    /\ Len(cout) = cl.wstart + 1

\* ------------------------------------------------------------------------
\* Properties of client and server together
\* ------------------------------------------------------------------------

\* C9: on a link that carries every frame, the handler is handed a Request
\* with the client's sender addresses and the address asked for as target,
\* and once it answers with a Reply from that address, the Resolve call in
\* progress returns the sender hardware address of the reply.
C9_EndToEnd ==
    /\ [](\A t \in 1..Len(tasks) :
            (t = calls /\ tasks[t].pc \in {"handler", "done"})
               => /\ tasks[t].r.Operation = OperationRequest
                  /\ tasks[t].r.SenderMAC = client.mac
                  /\ tasks[t].r.SenderIP = client.ip
                  /\ tasks[t].r.TargetIP = To4(cl.ip))
    /\ (cl.fn = "Resolve" /\ cl.pc = "Request")
          ~> (cl.pc = "returned" /\ cl.ret.err = ErrNil /\ cl.ret.mac = ServerMAC)

\* the second Resolve call returned the server's hardware address
C9_Witness ==
    /\ calls = 2
    /\ cl.fn = "Resolve"
    /\ cl.pc = "returned"
    /\ cl.ret.err = ErrNil
    /\ cl.ret.mac = ServerMAC
    /\ Len(tasks) = 2
    /\ tasks[2].pc = "handler"
    /\ tasks[2].sent = 1

\* ------------------------------------------------------------------------
\* Properties of the server
\* ------------------------------------------------------------------------

\* C10: Serve returns nil when ReadFrom reported io.EOF and the error itself
\* when it reported another one; the socket is closed when Serve has
\* returned; every datagram read was dispatched once, and none is read or
\* dispatched after the failing ReadFrom.
C10_ServeReturn ==
    /\ Len(tasks) = snread
    /\ srv.pc \in {"idle", "ReadFrom"} => (~closed /\ srv.ret = "none")
    /\ srv.pc \in {"deferred", "returned"}
          => /\ srv.rerr # ErrNil
             /\ srv.ret = IF srv.rerr = ErrEOF THEN ErrNil ELSE srv.rerr
             /\ snread = srv.failedAt
             /\ Len(tasks) = srv.failedAt
    /\ srv.pc = "returned" => closed

\* Serve returned nil on io.EOF with the socket closed, one datagram
\* dispatched and one left unread
C10_Witness ==
    /\ srv.pc = "returned"
    /\ srv.rerr = ErrEOF
    /\ srv.ret = ErrNil
    /\ closed
    /\ Len(tasks) = 1
    /\ Len(sarr) = 2

\* what parseRequest makes of the t-th datagram Serve read
ParsedRequest(t) == parseRequest(ReadBuf(sarr[t].b))

\* C11: for every datagram Serve read, the handler has been called at most
\* once, once when the task has passed parseRequest and the datagram is an
\* ARP frame with a well-formed packet, never when it is a non-ARP frame, a
\* short frame or a truncated packet; such a datagram ends its task without
\* Serve returning: Serve returns on an error of ReadFrom only.  A task
\* panics only inside a Send of its handler.
C11_HandlerOncePerRequest ==
    /\ \A t \in 1..Len(tasks) :
          /\ tasks[t].pc \in {"serve", "handler", "done", "panic"}
          /\ tasks[t].invoked <= 1
          /\ tasks[t].pc = "serve" => tasks[t].invoked = 0
          /\ tasks[t].pc \in {"handler", "done", "panic"}
                => (tasks[t].invoked = 1 <=> ParsedRequest(t).err = ErrNil)
          /\ tasks[t].pc = "panic" => tasks[t].p # NilPacket
          /\ tasks[t].pc = "handler" => tasks[t].r = ParsedRequest(t).r
    /\ srv.ret \in {"none", ErrNil} \cup ReadErrors
    /\ srv.pc \in {"deferred", "returned"} => srv.rerr \in ReadErrors

\* a truncated ARP packet ended its task without a handler call, and Serve
\* went on to read a request and hand it to the handler
C11_Witness ==
    /\ Len(tasks) = 2
    /\ sarr[1] = TruncatedARP
    /\ tasks[1].pc = "done"
    /\ tasks[1].invoked = 0
    /\ sarr[2] = RequestForA
    /\ tasks[2].pc = "handler"
    /\ tasks[2].invoked = 1
    /\ srv.pc = "ReadFrom"

\* C12: whatever Serve has read into its receive buffer since, the bytes a
\* task holds are the bytes of the datagram it was created for, and the
\* Request handed to the handler is the one those bytes decode to.
C12_TaskOwnsItsBytes ==
    \A t \in 1..Len(tasks) :
        /\ ConnBytes(tasks[t], srv.buf) = ReadBuf(sarr[t].b)
        /\ tasks[t].pc = "handler" => tasks[t].r = ParsedRequest(t).r

\* the first task has not decoded its request yet, and Serve has read a
\* datagram of other bytes into the receive buffer
C12_Witness ==
    /\ Len(tasks) = 2
    /\ tasks[1].pc = "serve"
    /\ sarr[1] = RequestForA
    /\ sarr[2] = NonARPFrame
    /\ SubSeq(srv.buf, 1, Len(tasks[1].buf)) # tasks[1].buf
    /\ tasks[1].buf = ReadBuf(RequestForA.b)

\* ------------------------------------------------------------------------
\* Properties of response.Send and of the accept loop
\* ------------------------------------------------------------------------

\* task t takes a step of Send in this transition
Sends(t) ==
    /\ t \in 1..Len(tasks)
    /\ tasks[t].pc = "handler"
    /\ tasks'[t] # tasks[t]
    /\ tasks'[t].pc # "done"

\* what the socket's WriteTo returns to the Send of task t for a frame fb
TransportResult(t, fb) ==
    IF closed THEN [n |-> 0, err |-> ErrClosed]
    ELSE IF tasks'[t].werr # ErrNil THEN [n |-> 0, err |-> tasks'[t].werr]
    ELSE [n |-> Len(fb), err |-> ErrNil]

\* the frame Send(p) hands to the socket
SentFrame(p) ==
    FrameMarshal([Destination |-> p.TargetMAC, Source |-> p.SenderMAC,
                  EtherType |-> EtherTypeARP, Payload |-> MarshalBinary(p).b])

\* the Send of task t returned what the socket returned, and the socket, if
\* it reported no error, has written the one frame of p to r.remoteAddr
SentAsClaimed(t) ==
    LET c  == tasks'[t]
        fb == SentFrame(c.p)
        w  == TransportResult(t, fb)
    IN  /\ c.pc = "handler"
        /\ c.sent = tasks[t].sent + 1
        /\ c.n = w.n
        /\ c.err = w.err
        /\ w.err # ErrNil => sout' = sout
        /\ w.err = ErrNil
             => /\ sout' = Append(sout, [b |-> fb, to |-> c.remoteAddr])
                /\ FrameUnmarshal(fb).f.Destination = c.p.TargetMAC
                /\ FrameUnmarshal(fb).f.Source = c.p.SenderMAC
                /\ FrameUnmarshal(fb).f.EtherType = EtherTypeARP
                /\ SubSeq(FrameUnmarshal(fb).f.Payload, 1, WireSize(c.p))
                     = MarshalBinary(c.p).b

\* C17: every Send(p) of a handler returns the byte count and the error of
\* the socket's WriteTo, and when that error is nil it has written one
\* frame, with destination p.TargetMAC, source p.SenderMAC and EtherType ARP,
\* to the address the task's datagram came from.
C17_SendOneFrame ==
    [][\A t \in 1..Len(tasks) : Sends(t) => SentAsClaimed(t)]_vars

\* Send as the code has it: the claim of C17 for every Packet whose wire
\* size fits a uint8, also when r.remoteAddr is not p.TargetMAC, and a panic
\* of the task for the others.
SendBelow256 ==
    [][\A t \in 1..Len(tasks) :
          Sends(t) => IF WireSize(tasks'[t].p) >= 256
                      THEN tasks'[t].pc = "panic" /\ sout' = sout
                      ELSE SentAsClaimed(t)]_vars

\* a task has sent a reply addressed to a third host, and the frame went to
\* the sender of its datagram
SentToRemoteAddr ==
    \E t \in 1..Len(tasks) :
        /\ tasks[t].sent = 1
        /\ tasks[t].p = ReplyToOther
        /\ tasks[t].err = ErrNil
        /\ tasks[t].remoteAddr # tasks[t].p.TargetMAC
        /\ \E i \in 1..Len(sout) :
              /\ sout[i].to = tasks[t].remoteAddr
              /\ sout[i].b = SentFrame(ReplyToOther)

\* C18: Serve dispatches every datagram that has arrived, or has returned on
\* a read error, whatever the tasks dispatched before do: also when none of
\* them ever takes a step or returns from its handler.
C18_ServeNeverWaits ==
    \A k \in 1..MaxDatagrams :
        (Len(sarr) >= k)
            ~> (Len(tasks) >= k \/ srv.pc \in {"deferred", "returned"})

\* Serve is back at ReadFrom while the handlers of two tasks are both in
\* progress
C18_Witness ==
    /\ srv.pc = "ReadFrom"
    /\ Len(tasks) >= 2
    /\ tasks[1].pc = "handler"
    /\ tasks[2].pc = "handler"

\* a task has panicked in Send
SendPanicked ==
    \E t \in 1..Len(tasks) : tasks[t].pc = "panic" /\ tasks[t].p = BigPacket

\* ------------------------------------------------------------------------
\* Properties of the storage of a decoded Packet
\* ------------------------------------------------------------------------

\* C13: after a successful UnmarshalBinary the four address fields are
\* slices of the one buffer it allocated, which is as long as the four
\* together; they lie in it one after the other, sender hardware, sender
\* protocol, target hardware, target protocol address, without overlap, and
\* none is a slice of the input; a write to the input or to one address
\* field afterwards changes no other field of the Packet.
C13_DecodeDisjoint ==
    (last.op \in {"UnmarshalBinary", "write"} /\ last.err = ErrNil /\ ~last.panic)
       => /\ \A f \in AddrFields : last.refs[f].buf = "bb"
          /\ last.refs.SenderMAC.lo = 0
          /\ last.refs.SenderMAC.hi = last.refs.SenderIP.lo
          /\ last.refs.SenderIP.hi = last.refs.TargetMAC.lo
          /\ last.refs.TargetMAC.hi = last.refs.TargetIP.lo
          /\ last.refs.TargetIP.hi = Len(last.bb)
          /\ Len(last.bb) = 2 * pkt.MACLength + 2 * pkt.IPLength
          /\ \A f \in AddrFields : last.refs[f].lo <= last.refs[f].hi
          /\ \A f \in AddrFields : pkt[f] = View([bb |-> last.bb], last.refs[f])
          /\ \A f \in AddrFields : f \notin last.written => pkt[f] = last.snap[f]
          /\ [pkt EXCEPT !.SenderMAC = <<>>, !.SenderIP = <<>>,
                         !.TargetMAC = <<>>, !.TargetIP = <<>>]
               = [last.snap EXCEPT !.SenderMAC = <<>>, !.SenderIP = <<>>,
                                   !.TargetMAC = <<>>, !.TargetIP = <<>>]

\* after a decode of 6-byte and 4-byte addresses the first address byte of
\* the input and the first byte of the sender hardware address were
\* overwritten, and the other three addresses are what the decode left
C13_Witness ==
    /\ last.op = "write"
    /\ last.written = {"input", "SenderMAC"}
    /\ pkt.MACLength = 6
    /\ pkt.IPLength = 4
    /\ wire[9] # last.snap.SenderMAC[1]
    /\ pkt.SenderMAC[1] # last.snap.SenderMAC[1]
    /\ pkt.SenderIP = last.snap.SenderIP
    /\ pkt.TargetMAC = last.snap.TargetMAC
    /\ pkt.TargetIP = last.snap.TargetIP

\* C14: a call of NewPacket or of UnmarshalBinary on a Packet whose address
\* fields have the declared lengths leaves a Packet whose address fields have
\* the declared lengths, whether the call succeeds or fails.
C14_LengthInvariant ==
    [][(/\ pkt = NilPacket \/ Consistent(pkt)
        /\ last'.op \in {"NewPacket", "UnmarshalBinary"}
        /\ ~last'.panic
        /\ pkt' # NilPacket) => Consistent(pkt')]_vars

\* The lengths as the code keeps them: after a call that succeeds.
LengthInvariantOnSuccess ==
    (last.op \in {"NewPacket", "UnmarshalBinary"} /\ last.err = ErrNil /\ ~last.panic)
        => Consistent(pkt)

\* a decode that failed for want of address bytes left the declared lengths
\* of the input in a Packet whose address fields are empty
DecodeFailureLeavesLengths ==
    /\ last.op = "UnmarshalBinary"
    /\ last.err = ErrUnexpectedEOF
    /\ pkt.MACLength = 255
    /\ pkt.SenderMAC = <<>>

\* ------------------------------------------------------------------------
\* Properties of the construction of a client and of its writing calls
\* ------------------------------------------------------------------------

\* every address of the list can be parsed
Parses(addrs) ==
    \A i \in 1..Len(addrs) : addrs[i].network = "ip+net" => addrs[i].cidr = "ok"

\* the positions of the IPv4 addresses of the list
IPv4At(addrs) ==
    {i \in 1..Len(addrs) : addrs[i].network = "ip+net" /\ IsIPv4(addrs[i].ip)}

\* the first IPv4 address of the list, in 4-byte form
FirstIPv4(addrs) ==
    To4(addrs[CHOOSE i \in IPv4At(addrs) : \A j \in IPv4At(addrs) : i <= j].ip)

\* C15: newClient fails with errNoIPv4Addr when no address of the interface
\* is an IPv4 address and otherwise makes a Client of the first IPv4 address
\* of the list; no Client has an unset ip.
C15_NoClientWithoutIPv4 ==
    /\ (cl.fn = "newClient" /\ Parses(cl.args[2]))
          => IF IPv4At(cl.args[2]) = {}
             THEN client = NilClient /\ cl.ret.err = errNoIPv4Addr
             ELSE /\ client # NilClient
                  /\ cl.ret.err = ErrNil
                  /\ client.ip = FirstIPv4(cl.args[2])
    /\ client # NilClient => client.ip # <<>>

\* The construction as the code has it: the first IPv4 address of the list
\* when there is one, and otherwise a Client without an ip, whose Request
\* returns errNoIPv4Addr and writes nothing.
NewClientBindsFirstIPv4 ==
    /\ (cl.fn = "newClient" /\ Parses(cl.args[2]))
          => /\ client # NilClient
             /\ cl.ret.err = ErrNil
             /\ client.mac = cl.args[1]
             /\ client.ip = IF IPv4At(cl.args[2]) = {}
                            THEN <<>> ELSE FirstIPv4(cl.args[2])
    /\ (cl.fn = "Request" /\ client.ip = <<>>)
          => (cl.ret.err = errNoIPv4Addr /\ Len(cout) = cl.wstart)

\* newClient made a Client of an interface without an IPv4 address
ClientWithoutIPv4 ==
    /\ cl.fn = "newClient"
    /\ cl.args[2] = <<AddrV6>>
    /\ client # NilClient
    /\ client.ip = <<>>

\* the frame a call wrote last, and the Packet in it
LastFrame == cout[Len(cout)]
LastPacket == parsePacket(LastFrame.b)

\* C16: Request(ip) on a client with a hardware address of 6 bytes or more
\* and an IPv4 address, for an IPv4 address ip and a socket that writes,
\* returns nil having written one frame, to the broadcast address, that holds
\* a Request from the client's hardware and IPv4 address to the broadcast
\* hardware address and ip, and having read nothing.
C16_RequestWritesBroadcast ==
    (/\ cl.fn = "Request"
     /\ Len(client.mac) >= 6
     /\ client.ip # <<>>
     /\ IsIPv4(cl.args[1])
     /\ cl.args[2] = ErrNil)
        => /\ cl.pc = "returned"
           /\ cl.ret.err = ErrNil
           /\ cnread = cl.start
           /\ Len(cout) = cl.wstart + 1
           /\ LastFrame.to = Broadcast
           /\ LastPacket.err = ErrNil
           /\ LastPacket.f.Destination = Broadcast
           /\ LastPacket.f.Source = client.mac
           /\ LastPacket.p.Operation = OperationRequest
           /\ LastPacket.p.SenderMAC = client.mac
           /\ LastPacket.p.SenderIP = client.ip
           /\ LastPacket.p.TargetMAC = Broadcast
           /\ LastPacket.p.TargetIP = To4(cl.args[1])

\* Request as the code has it: the claim of C16 for a client whose hardware
\* address has 6 bytes; with a longer one it returns ErrInvalidMAC and
\* writes nothing.
RequestWritesBroadcast6 ==
    (/\ cl.fn = "Request"
     /\ client.ip # <<>>
     /\ IsIPv4(cl.args[1])
     /\ cl.args[2] = ErrNil)
        => IF Len(client.mac) # 6
           THEN cl.ret.err = ErrInvalidMAC /\ Len(cout) = cl.wstart
           ELSE /\ cl.pc = "returned"
                /\ cl.ret.err = ErrNil
                /\ cnread = cl.start
                /\ Len(cout) = cl.wstart + 1
                /\ LastFrame.to = Broadcast
                /\ LastPacket.f.Destination = Broadcast
                /\ LastPacket.p.Operation = OperationRequest
                /\ LastPacket.p.SenderMAC = client.mac
                /\ LastPacket.p.SenderIP = client.ip
                /\ LastPacket.p.TargetMAC = Broadcast
                /\ LastPacket.p.TargetIP = To4(cl.args[1])

\* C19: WriteTo(p, addr) returns the error of the socket's WriteTo, and when
\* that is nil it has written one frame, to addr, with destination
\* p.TargetMAC, source p.SenderMAC, EtherType ARP and the encoding of p as
\* its payload; when it is an error, it has written none.
C19_WriteToOneFrame ==
    cl.fn = "WriteTo" =>
        /\ cl.pc = "returned"
        /\ cl.ret.err = cl.args[3]
        /\ cnread = cl.start
        /\ cl.args[3] # ErrNil => Len(cout) = cl.wstart
        /\ cl.args[3] = ErrNil
              => /\ Len(cout) = cl.wstart + 1
                 /\ LastFrame.to = cl.args[2]
                 /\ FrameUnmarshal(LastFrame.b).f.Destination = cl.args[1].TargetMAC
                 /\ FrameUnmarshal(LastFrame.b).f.Source = cl.args[1].SenderMAC
                 /\ FrameUnmarshal(LastFrame.b).f.EtherType = EtherTypeARP
                 /\ Len(MarshalBinary(cl.args[1]).b) = WireSize(cl.args[1])
                 /\ SubSeq(FrameUnmarshal(LastFrame.b).f.Payload, 1, WireSize(cl.args[1]))
                      = MarshalBinary(cl.args[1]).b

\* WriteTo as the code has it: the claim of C19 for every Packet whose wire
\* size fits a uint8, and a panic for the others.
WriteToBelow256 ==
    cl.fn = "WriteTo" =>
        IF WireSize(cl.args[1]) >= 256
        THEN cl.pc = "panic" /\ Len(cout) = cl.wstart
        ELSE /\ cl.pc = "returned"
             /\ cl.ret.err = cl.args[3]
             /\ cl.args[3] # ErrNil => Len(cout) = cl.wstart
             /\ cl.args[3] = ErrNil
                   => /\ Len(cout) = cl.wstart + 1
                      /\ LastFrame.to = cl.args[2]
                      /\ LastFrame.to # cl.args[1].TargetMAC
                      /\ FrameUnmarshal(LastFrame.b).f.Destination = cl.args[1].TargetMAC
                      /\ FrameUnmarshal(LastFrame.b).f.Source = cl.args[1].SenderMAC
                      /\ FrameUnmarshal(LastFrame.b).f.EtherType = EtherTypeARP
                      /\ SubSeq(FrameUnmarshal(LastFrame.b).f.Payload, 1,
                                WireSize(cl.args[1])) = MarshalBinary(cl.args[1]).b

MatchAhead ==
    \E i \in (cnread + 1)..Len(carr) :
        /\ Parsed(i).err = ErrNil
        /\ Parsed(i).p.Operation = OperationReply
        /\ SameAddress(Parsed(i).p.SenderIP, cl.ip)

\* C25: a Resolve that is past its request returns once the socket has
\* delivered a reply from the address asked for, and at once when a
\* ReadFrom reports an error; as long as the socket has reported no error
\* and has delivered only frames that are not ARP, requests and replies from
\* other addresses, it has not returned, however many it has read: it stays
\* at ReadFrom.
C25_ResolveReturns ==
    /\ [](cl.fn = "Resolve" /\ cl.nerr > 0
             => cl.pc = "returned" /\ cl.ret.err = cl.rdErr)
    /\ []((/\ cl.fn = "Resolve"
           /\ cl.pc # "Request"
           /\ cl.nerr = 0
           /\ cnread + Len(cout) > cl.start + cl.wstart
           /\ \A j \in (cl.start + 1)..cnread : Discarded(j, cl.ip))
             => cl.pc = "ReadFrom")
    /\ ((cl.fn = "Resolve" /\ cl.pc = "ReadFrom" /\ MatchAhead)
            ~> (cl.fn = "Resolve" /\ cl.pc = "returned"))

\* Resolve(IPa) has read a request from IPa and a reply from another
\* address, as many datagrams as the socket delivers in a run, and waits
C25_Witness ==
    /\ cl.fn = "Resolve"
    /\ cl.ip = IPa
    /\ cl.pc = "ReadFrom"
    /\ cnread = cl.start + MaxDatagrams
    /\ cnread = Len(carr)
    /\ carr[cnread] = ReplyFromB
    /\ \E j \in (cl.start + 1)..cnread : carr[j] = RequestFromA

\* ------------------------------------------------------------------------
\* Read and Resolve on one Client
\* ------------------------------------------------------------------------

\* the i-th datagram is a reply from the address the Resolve in progress
\* asks for
IsMatch(i) ==
    /\ Parsed(i).err = ErrNil
    /\ Parsed(i).p.Operation = OperationReply
    /\ SameAddress(Parsed(i).p.SenderIP, cl.ip)

\* C26: with a Resolve and a Read of another goroutine in progress on one
\* Client, every datagram read from the socket went to one of the calls of
\* the two goroutines and to no other; whenever both are at ReadFrom and a
\* datagram is unread, either can take it; and a Resolve that has returned a
\* hardware address has read a matching reply itself, so that it returns
\* none for a matching reply that the Read took.
C26_ReadRacesResolve ==
    cl.fn = "Resolve" =>
        /\ cl.got \cap cl.other.got = {}
        /\ cl.got \cup cl.other.got \subseteq 1..cnread
        /\ (cl.other.pc \in {"ReadFrom", "returned"} /\ calls = 2)
              => cl.got \cup cl.other.got = 1..cnread
        /\ (cl.pc = "ReadFrom" /\ cl.other.pc = "ReadFrom" /\ cnread < Len(carr))
              => /\ ENABLED (ClientReadFrom(ErrNil) /\ ClientOnly)
                 /\ ENABLED (PeerReadFrom(ErrNil) /\ ClientOnly)
        /\ (cl.pc = "returned" /\ cl.ret.err = ErrNil)
              => \E i \in cl.got : IsMatch(i) /\ cl.ret.mac = Parsed(i).p.SenderMAC
        /\ (cl.pc = "ReadFrom") => \A i \in cl.got : ~IsMatch(i)

\* the Read took the reply from IPa and returned it, and Resolve(IPa), which
\* read the frame behind it, waits with nothing left to read
C26_Witness ==
    /\ cl.fn = "Resolve"
    /\ cl.ip = IPa
    /\ cl.pc = "ReadFrom"
    /\ cl.other.pc = "returned"
    /\ cl.other.ret.err = ErrNil
    /\ cl.other.ret.p.SenderMAC = ServerMAC
    /\ cl.other.got = {cl.start + 1}
    /\ carr[cl.start + 1] = ReplyFromA
    /\ cl.got = {cl.start + 2}
    /\ cnread = Len(carr)

\* ------------------------------------------------------------------------
\* Serve and the tasks in flight
\* ------------------------------------------------------------------------

\* C27: Serve, once ReadFrom has failed, closes the socket and returns
\* whatever the tasks it dispatched are doing; a handler that is still
\* running then can still call Send, which writes nothing and returns the
\* error of the closed socket.
C27_ServeLeavesTasks ==
    /\ srv.pc = "deferred" => ENABLED (ServeClose /\ ServerOnly)
    /\ srv.pc = "returned" => closed
    /\ \A t \in 1..Len(tasks) :
          /\ (tasks[t].pc = "handler" /\ tasks[t].sent < MaxSends)
                => ENABLED (HandlerSend(t, ReplyToOther, ErrNil) /\ ServerOnly)
          /\ (tasks[t].pc = "handler" /\ tasks[t].sent > 0)
                => /\ tasks[t].err = ErrClosed => (closed /\ tasks[t].n = 0)
                   /\ tasks[t].err = ErrNil => tasks[t].n > 0

\* Serve has returned and the socket is closed; the handler of a request
\* read before is still running and has called Send since, for nothing
C27_Witness ==
    /\ srv.pc = "returned"
    /\ closed
    /\ Len(sout) = 0
    /\ \E t \in 1..Len(tasks) :
          /\ tasks[t].pc = "handler"
          /\ tasks[t].sent = 1
          /\ tasks[t].err = ErrClosed

\* ------------------------------------------------------------------------
\* Resolve when its request fails
\* ------------------------------------------------------------------------

\* C28: when c.Request returns an error to Resolve (NewPacket refused the
\* addresses, the client has no IPv4 address, or WriteTo failed), Resolve
\* has returned that error and no hardware address, and it has not called
\* ReadFrom: no datagram was read since the call began and none can be read
\* by it.
C28_RequestErrorReadsNothing ==
    (cl.fn = "Resolve" /\ cl.reqErr # ErrNil)
        => /\ cl.pc = "returned"
           /\ cl.ret = [NoRet EXCEPT !.err = cl.reqErr]
           /\ cl.reqErr \in {ErrInvalidIP, ErrInvalidMAC, errNoIPv4Addr, ErrWrite}
           /\ cl.got = {}
           /\ cl.nerr = 0
           /\ cnread = cl.start
           /\ cl.reqErr # ErrWrite => Len(cout) = cl.wstart
           /\ \A rerr \in {ErrNil, ErrTimeout} :
                 ~ENABLED (ClientReadFrom(rerr) /\ ClientOnly)

\* Resolve(IPa) has returned the error of WriteTo while the reply from IPa
\* is the next datagram on the socket, unread
C28_Witness ==
    /\ cl.fn = "Resolve"
    /\ cl.ip = IPa
    /\ cl.pc = "returned"
    /\ cl.ret.err = ErrWrite
    /\ cl.reqErr = ErrWrite
    /\ Len(carr) = cnread + 1
    /\ carr[cnread + 1] = ReplyFromA

\* ------------------------------------------------------------------------
\* The receive buffers
\* ------------------------------------------------------------------------

\* the datagram b is a frame of EtherType ARP whose packet declares address
\* lengths that put its end beyond the receive buffer
NeedsMoreThanBuf(b) ==
    /\ Len(b) >= 22
    /\ Uint16(b, 12) = EtherTypeARP
    /\ 14 + 8 + 2 * b[19] + 2 * b[20] > ReadBufSize

\* C29: Read and Serve take the first 128 bytes of a datagram.  A Read that
\* came upon an ARP frame whose declared lengths need more returns
\* io.ErrUnexpectedEOF and no Packet, and a Packet it returns fits in 128
\* bytes of frame; the task Serve starts for such a frame ends without
\* calling the handler, and Serve reads on.  A frame of exactly 128 bytes
\* is returned and is handled.
C29_BufferBoundsFrames ==
    /\ (cl.fn = "Read" /\ cl.pc = "returned" /\ cl.nerr = 0)
          => /\ cnread > 0
             /\ IF NeedsMoreThanBuf(carr[cnread].b)
                THEN cl.ret = [NoRet EXCEPT !.err = ErrUnexpectedEOF]
                ELSE /\ cl.ret.err = ErrNil
                     /\ cl.ret.p # NilPacket
                     /\ 14 + 8 + 2 * cl.ret.p.MACLength + 2 * cl.ret.p.IPLength
                            <= ReadBufSize
    /\ Len(tasks) = snread
    /\ \A t \in 1..Len(tasks) :
          /\ tasks[t].n <= ReadBufSize
          /\ NeedsMoreThanBuf(sarr[t].b)
                => (tasks[t].pc \in {"serve", "done"} /\ tasks[t].invoked = 0)
          /\ (~NeedsMoreThanBuf(sarr[t].b) /\ tasks[t].pc # "serve")
                => (tasks[t].pc \in {"handler", "done"} /\ tasks[t].invoked = 1)
    /\ srv.pc \in {"idle", "ReadFrom"}
    /\ sout = <<>>

\* Read has returned io.ErrUnexpectedEOF for the frame of 130 bytes; the
\* task of the server for the same frame has ended, its handler not called,
\* and Serve has read the next datagram
C29_Witness ==
    /\ cl.fn = "Read"
    /\ cl.pc = "returned"
    /\ cnread = 1
    /\ carr[1] = RequestOf130
    /\ cl.ret.err = ErrUnexpectedEOF
    /\ snread = 2
    /\ sarr[1] = RequestOf130
    /\ tasks[1].pc = "done"
    /\ tasks[1].invoked = 0
    /\ sarr[2] = RequestOf128
    /\ tasks[2].pc = "handler"

====
